---- MODULE Spec2Model ----
(***************************************************************************)
(* Request pipeline of the Nimble core: route match, raw extraction,       *)
(* schema validation, onRequest hook, guard chain, handler.                *)
(*                                                                         *)
(* Spec        the pipeline of packages/core/src/router.ts, wired (by its  *)
(*             imports) to parseBody / validateInputs of                   *)
(*             internal/validation.ts (the safeParse-based validator).     *)
(* SpecBridge  validateInput / parseBody of the adapter-based validator    *)
(*             (validation.ts with a ValidatorAdapter), applied as a pure  *)
(*             function to bounded requests.                               *)
(* SpecGroup   group() of group.ts evaluated at setup, then the guard loop *)
(*             over the handlers it registered.                            *)
(* SpecRuntime setupNimble.fetch of runtime.ts: the pipeline inside the    *)
(*             try/catch that hands faults to onError.                     *)
(* SpecQuery   parseQuery of internal/validation.ts as a pure function of  *)
(*             bounded query strings.                                      *)
(* SpecHooks   setupNimble.fetch of the runtime.ts that takes onRequest and *)
(*             onResponse hooks around router.handle.                      *)
(* SpecRequestId  resolveRequestId as a pure function of bounded headers.  *)
(* SpecTrace   the request id the router resolves for guards and handler,  *)
(*             and the one fetch resolves for onError.                     *)
(* SpecConc    two calls of handle on one router, interleaved at their     *)
(*             awaits, with the context objects in one heap.               *)
(* SpecStall   fetch on requests for which a guard or the handler returns  *)
(*             a promise that never settles.                               *)
(* SpecShare   group() applied twice to one route object, the handler      *)
(*             objects in a heap.                                          *)
(***************************************************************************)
EXTENDS Integers, Sequences, FiniteSets, TLC

VARIABLES route, req, pc, gi, raw, input, heap, ctx, calls, outcomes,
          schemaCalls, bodyUsed, bodyReads, handlerRead, response, fault,
          app, registry, cur, executed, served,
          config, headers, errorCalls, logged, sent,
          search, parsedQuery, requestId, conc

\* one call of handle: the matched route, the request, the pipeline's locals
pipelineVars ==
  <<route, req, pc, gi, raw, input, heap, ctx, calls, outcomes,
    schemaCalls, bodyUsed, bodyReads, handlerRead, response, fault>>

\* route registration: the group() expression of the application, the
\* handler list it evaluates to, and the guard loop over a registered route
groupVars == <<app, registry, cur, executed, served>>

\* setupNimble(config).fetch: the configuration, the request's headers, the
\* onError invocations, the console.error lines, the responses fetch gave
runtimeVars == <<config, headers, errorCalls, logged, sent>>

\* parseQuery: the pairs of the URL's search params, and the object returned
queryVars == <<search, parsedQuery>>

vars == <<pipelineVars, groupVars, runtimeVars, queryVars, requestId, conc>>

(* ---------------------------- bounds ----------------------------------- *)

\* longest guard chain of a route
MaxGuards == 2

(* ---------------------------- values ----------------------------------- *)

\* the three request parts, in the order validateInputs visits them
Parts == <<"params", "query", "body">>

PartSet == {"params", "query", "body"}

\* JavaScript undefined
Undefined == "undefined"

\* raw path parameter maps (the value of :id)
ParamValues == {"42", "abc"}

\* raw query maps
QueryValues == {"q_ok", "q_bad"}

\* what the transport body holds: no body at all, JSON the body schema
\* accepts, JSON it rejects, text that is not JSON
BodyKinds == {"none", "json_ok", "json_bad", "malformed"}

\* value req.json() resolves to for well-formed JSON
JsonValue(b) == IF b = "json_ok" THEN "b_ok" ELSE "b_bad"

\* keys of c.locals
Keys == {"role", "traceId"}

\* marks a key that a locals object or a patch does not have
Absent == "absent"

\* locals: {}
EmptyLocals == [k \in Keys |-> Absent]

\* locals patches a hook or a guard may return
Patches ==
  { [role |-> "user", traceId |-> Absent],
    [role |-> "admin", traceId |-> Absent],
    [role |-> Absent, traceId |-> "t1"] }

\* Route: request schemas, guards, and the hook setupNimble passes along
Routes ==
  [ request : { [defined |-> FALSE, parts |-> {}] } \cup
              { [defined |-> TRUE, parts |-> s] : s \in SUBSET PartSet },
    numGuards : 0..MaxGuards,
    hasHook : BOOLEAN ]

\* Request: does a route match, the raw facts it carries, the first guard of
\* the chain that denies it when reached (0: none does), and the stage whose
\* promise never settles on it (0: none; numGuards + 1: the handler)
MatchedRequests(rt) ==
  [ matched : {TRUE}, params : ParamValues, query : QueryValues,
    body : BodyKinds, deniedBy : 0..rt.numGuards, hangs : {0} ]

UnmatchedRequest ==
  [ matched |-> FALSE, params |-> "42", query |-> "q_ok", body |-> "none",
    deniedBy |-> 0, hangs |-> 0 ]

NoRaw == [params |-> Undefined, query |-> Undefined, body |-> Undefined]

\* c.input before validateInputs has run
NoInput == [unset |-> TRUE]

NoResponse == [kind |-> "none", idx |-> 0]

NoFault == [stage |-> "none", idx |-> 0, ref |-> 0]

\* setupNimble(handlers): the legacy array form, no onError of the caller's
LegacyConfig == [onError |-> "default"]

\* no requests are in flight side by side
NoConc == [started |-> FALSE]

\* resolveRequestId has not been called
NoRequestId == [resolved |-> FALSE, value |-> <<>>]

\* a request with neither x-request-id nor x-correlation-id
NoHeaders == [xRequestId |-> Absent, xCorrelationId |-> Absent]

\* keys of query strings: two plain ones, and one that is also the name of
\* a property every object inherits from Object.prototype
QueryKeys == {"tag", "page", "constructor"}

\* a property that is not there
NoProperty == [kind |-> "undefined", vals |-> <<>>]

\* the object literal {}: no own property
EmptyObject == [k \in QueryKeys |-> NoProperty]

\* no group() expression: the routes are given to the router as they are
NoApp == [isGroup |-> FALSE, path |-> "", guards |-> <<>>, children |-> <<>>]

(* ------------------------ schemas (collaborator) ----------------------- *)

\* raw values the route's schemas accept
Accepted == {"42", "q_ok", "b_ok"}

\* the typed value a schema produces from an accepted raw value
Parsed(data) ==
  CASE data = "42" -> "n42"
    [] data = "q_ok" -> "vq"
    [] data = "b_ok" -> "vb"
    [] OTHER -> data

\* Schema.safeParse of the schema declared for part p
safeParse(p, data) ==
  IF data \in Accepted
  THEN [success |-> TRUE, data |-> Parsed(data), issues |-> <<>>]
  ELSE [success |-> FALSE, data |-> Undefined,
        issues |-> << [path |-> <<>>, message |-> "Validation failed"] >>]

(* ------------------------ internal/validation.ts ----------------------- *)

\* a bug: reads through a clone, leaving the request's own stream unread
parseBody_clone(rq, used) ==
  IF rq.body = "none"
  THEN [value |-> Undefined, read |-> FALSE, consumed |-> FALSE]
  ELSE [value |-> IF rq.body = "malformed" THEN Undefined
                  ELSE JsonValue(rq.body),
        read |-> TRUE, consumed |-> FALSE]

\* parseBody: never throws; a missing body, a used stream or invalid JSON
\* all become undefined.  read: the stream's bytes were read by this call;
\* consumed: the stream is used afterwards.
parseBody(rq, used) ==
  IF rq.body = "none"
  THEN [value |-> Undefined, read |-> FALSE, consumed |-> FALSE]
  ELSE IF used
  THEN [value |-> Undefined, read |-> FALSE, consumed |-> TRUE]
  ELSE [value |-> IF rq.body = "malformed" THEN Undefined
                  ELSE JsonValue(rq.body),
        read |-> TRUE, consumed |-> TRUE]

\* a bug: every issue is tagged with the part validated last
TaggedIssues_bodyTag(p, res) ==
  [ i \in 1..Len(res.issues) |->
      [part |-> "body", path |-> res.issues[i].path,
       message |-> res.issues[i].message] ]

\* issues of one part, tagged with the part
TaggedIssues(p, res) ==
  [ i \in 1..Len(res.issues) |->
      [part |-> p, path |-> res.issues[i].path,
       message |-> res.issues[i].message] ]

\* the parts with a declared schema, in validation order
DeclaredSeq(schemas) == SelectSeq(Parts, LAMBDA p : p \in schemas.parts)

\* one part of validateInputs: validated value, failure flag, issues
ValidatePart(schemas, rawv, p) ==
  IF p \in schemas.parts
  THEN LET res == safeParse(p, rawv[p])
       IN  IF res.success
           THEN [value |-> res.data, failed |-> FALSE, issues |-> <<>>]
           ELSE [value |-> Undefined, failed |-> TRUE,
                 issues |-> TaggedIssues(p, res)]
  ELSE [value |-> rawv[p], failed |-> FALSE, issues |-> <<>>]

\* a bug: stops at the first failing part
validateInputs_failFast(schemas, rawv) ==
  IF ~schemas.defined
  THEN [ok |-> TRUE, params |-> rawv.params, query |-> rawv.query,
        body |-> rawv.body]
  ELSE LET vp == ValidatePart(schemas, rawv, "params")
           vq == ValidatePart(schemas, rawv, "query")
           vb == ValidatePart(schemas, rawv, "body")
       IN  IF vp.failed
           THEN [ok |-> FALSE, failed |-> <<"params">>,
                 issues |-> vp.issues, raw |-> rawv]
           ELSE IF vq.failed
           THEN [ok |-> FALSE, failed |-> <<"query">>,
                 issues |-> vq.issues, raw |-> rawv]
           ELSE IF vb.failed
           THEN [ok |-> FALSE, failed |-> <<"body">>,
                 issues |-> vb.issues, raw |-> rawv]
           ELSE [ok |-> TRUE, params |-> vp.value, query |-> vq.value,
                 body |-> vb.value]

\* a bug: the failure result carries the parts that did validate
validateInputs_partial(schemas, rawv) ==
  IF ~schemas.defined
  THEN [ok |-> TRUE, params |-> rawv.params, query |-> rawv.query,
        body |-> rawv.body]
  ELSE LET vp == ValidatePart(schemas, rawv, "params")
           vq == ValidatePart(schemas, rawv, "query")
           vb == ValidatePart(schemas, rawv, "body")
       IN  IF vp.failed \/ vq.failed \/ vb.failed
           THEN [ok |-> FALSE,
                 failed |-> SelectSeq(Parts, LAMBDA p :
                              ValidatePart(schemas, rawv, p).failed),
                 issues |-> vp.issues \o vq.issues \o vb.issues,
                 raw |-> rawv,
                 params |-> vp.value, query |-> vq.value, body |-> vb.value]
           ELSE [ok |-> TRUE, params |-> vp.value, query |-> vq.value,
                 body |-> vb.value]

\* validateInputs(schemas, raw): c.input
validateInputs(schemas, rawv) ==
  IF ~schemas.defined
  THEN [ok |-> TRUE, params |-> rawv.params, query |-> rawv.query,
        body |-> rawv.body]
  ELSE LET vp == ValidatePart(schemas, rawv, "params")
           vq == ValidatePart(schemas, rawv, "query")
           vb == ValidatePart(schemas, rawv, "body")
           failed == SelectSeq(Parts, LAMBDA p :
                       ValidatePart(schemas, rawv, p).failed)
       IN  IF Len(failed) > 0
           THEN [ok |-> FALSE, failed |-> failed,
                 issues |-> vp.issues \o vq.issues \o vb.issues,
                 raw |-> rawv]
           ELSE [ok |-> TRUE, params |-> vp.value, query |-> vq.value,
                 body |-> vb.value]

\* a bug: safeParse is called for every part, declared or not
SafeParseCalls_allParts(schemas) ==
  IF ~schemas.defined THEN <<>> ELSE Parts

\* the safeParse calls validateInputs makes, in order
SafeParseCalls(schemas) ==
  IF ~schemas.defined THEN <<>> ELSE DeclaredSeq(schemas)

(* ------------------------------ router.ts ------------------------------ *)

\* a bug: the body is parsed for every matched request
ShouldParseBody_always(rt) == TRUE

\* matched.handler.request?.body: parse the body only under a body schema
ShouldParseBody(rt) == rt.request.defined /\ "body" \in rt.request.parts

\* a bug: a failed validation answers the request before any guard runs
AfterValidation_failFast(inp) ==
  IF inp.ok THEN "hook" ELSE "respondInvalid"

\* after validateInputs the context is built and the pipeline goes on to the
\* hook and the guards, whatever input.ok is
AfterValidation(inp) == "hook"

\* a bug: the earlier value of a key wins
Merge_firstWins(locals, patch) ==
  [k \in Keys |-> IF locals[k] # Absent THEN locals[k] ELSE patch[k]]

\* { ...context.locals, ...patch }
Merge(locals, patch) ==
  [k \in Keys |-> IF patch[k] # Absent THEN patch[k] ELSE locals[k]]

\* a bug: a deny does not end the guard loop
OnGuardResult_ignoreDeny(res) == "next"

\* "deny" in guardResult: return the denial, else go on with the next guard
OnGuardResult(res) == IF res.kind = "deny" THEN "return" ELSE "next"

\* what a guard may do: allow (with or without locals), deny, or throw
GuardResults ==
  { [kind |-> "allow", hasLocals |-> FALSE, locals |-> EmptyLocals] } \cup
  { [kind |-> "allow", hasLocals |-> TRUE, locals |-> p] : p \in Patches } \cup
  { [kind |-> "deny", hasLocals |-> FALSE, locals |-> EmptyLocals],
    [kind |-> "throw", hasLocals |-> FALSE, locals |-> EmptyLocals] }

\* the results guard i can give on request rq: the guards ahead of the first
\* denying one allow or throw, that one denies, the ones behind it are free
GuardMay(res, i, rq) ==
  CASE i = rq.deniedBy -> res.kind = "deny"
    [] rq.deniedBy = 0 \/ i < rq.deniedBy -> res.kind # "deny"
    [] OTHER -> TRUE

\* what the onRequest hook may do: return nothing, return a patch, throw,
\* or return what a guard or a handler would: an object { deny: Response }
\* or a Response.  Both are truthy objects, so they are spread into locals
\* like a patch; they hold none of the keys followed here.
HookResults ==
  { [kind |-> "allow", hasLocals |-> FALSE, locals |-> EmptyLocals] } \cup
  { [kind |-> "allow", hasLocals |-> TRUE, locals |-> p] : p \in Patches } \cup
  { [kind |-> "throw", hasLocals |-> FALSE, locals |-> EmptyLocals],
    [kind |-> "deny", hasLocals |-> TRUE, locals |-> EmptyLocals],
    [kind |-> "response", hasLocals |-> TRUE, locals |-> EmptyLocals] }

\* a bug: a hook that returns a deny or a Response answers the request
OnHookResult_honoursDeny(res) ==
  IF res.kind \in {"deny", "response"} THEN "return" ELSE "merge"

\* if (localsPatch) context = {...}: the hook's value is only ever merged
OnHookResult(res) == "merge"

\* what the handler may do: return a response of its own, return the
\* validation errors it found in c.input, or throw
HandlerResults == {"handler", "validationError", "throw"}

\* a bug: the patch is merged into the one context object every earlier
\* producer holds (context.locals = { ...context.locals, ...patch })
MergeContext_inPlace(h, c, patch) ==
  [heap |-> [h EXCEPT ![c] = Merge(h[c], patch)], ctx |-> c]

\* a bug: the new context holds the patch alone, the locals accumulated
\* before are dropped (locals: { ...patch })
MergeContext_patchOnly(h, c, patch) ==
  [heap |-> Append(h, patch), ctx |-> Len(h) + 1]

\* context = { ...context, locals: { ...context.locals, ...patch } }: a new
\* context object with a new locals object; the earlier ones stay as they are
MergeContext(h, c, patch) ==
  [heap |-> Append(h, Merge(h[c], patch)), ctx |-> Len(h) + 1]

\* a bug: the context of a request whose validation failed has no raw values
ContextRaw_onlyWhenValid(rw, inp) ==
  IF "ok" \in DOMAIN inp /\ ~inp.ok THEN NoRaw ELSE rw

\* context.raw: { params: matched.params, query, cookies, body }, set when
\* the context is created and copied by every `...context`
ContextRaw(rw, inp) == rw

\* an invocation: the context object passed (ref), the locals it held at
\* the moment of the call (seen) and its raw values (raw)
Call(stage, idx) ==
  [stage |-> stage, idx |-> idx, ref |-> ctx,
   seen |-> IF ctx = 0 THEN EmptyLocals ELSE heap[ctx],
   raw |-> ContextRaw(raw, input)]

Outcome(stage, idx, res) ==
  [stage |-> stage, idx |-> idx, kind |-> res.kind,
   hasLocals |-> res.hasLocals, locals |-> res.locals]

Init ==
  /\ route \in Routes
  /\ req \in MatchedRequests(route) \cup {UnmatchedRequest}
  /\ pc = "start"
  /\ gi = 1
  /\ raw = NoRaw
  /\ input = NoInput
  /\ heap = <<>>
  /\ ctx = 0
  /\ calls = <<>>
  /\ outcomes = <<>>
  /\ schemaCalls = <<>>
  /\ bodyUsed = FALSE
  /\ bodyReads = <<>>
  /\ handlerRead = "none"
  /\ response = NoResponse
  /\ fault = NoFault
  /\ app = NoApp
  /\ registry = <<>>
  /\ cur = 0
  /\ executed = <<>>
  /\ served = 0
  /\ config = LegacyConfig
  /\ headers = NoHeaders
  /\ errorCalls = <<>>
  /\ logged = <<>>
  /\ sent = <<>>
  /\ search = <<>>
  /\ parsedQuery = EmptyObject
  /\ requestId = NoRequestId
  /\ conc = NoConc

\* a bug: the onRequest hook runs before routing, so also without a match
NotFoundCalls_hookFirst(rt) ==
  IF rt.hasHook
  THEN << [stage |-> "hook", idx |-> 0, ref |-> 0, seen |-> EmptyLocals] >>
  ELSE <<>>

\* what handle invokes for a request no route matches: nothing
NotFoundCalls(rt) == <<>>

\* locals of the minimal context handle builds for the 404 response
NotFoundLocals == EmptyLocals

\* handle: match(req.method, req.url); no match builds notFoundContext and
\* answers 404 with it
Match ==
  /\ pc = "start"
  /\ IF req.matched
     THEN /\ pc' = "extract"
          /\ UNCHANGED <<response, heap, ctx, calls>>
     ELSE /\ pc' = "done"
          /\ response' = [kind |-> "notFound", idx |-> 0]
          /\ heap' = <<NotFoundLocals>>
          /\ ctx' = 1
          /\ calls' = calls \o NotFoundCalls(route)
  /\ UNCHANGED <<route, req, gi, raw, input, outcomes,
                 schemaCalls, bodyUsed, bodyReads, handlerRead, fault>>
  /\ UNCHANGED <<groupVars, runtimeVars, queryVars, requestId, conc>>

\* handle: extract raw values (cookies, query, body)
Extract ==
  /\ pc = "extract"
  /\ IF ShouldParseBody(route)
     THEN LET r == parseBody(req, bodyUsed)
          IN  /\ raw' = [params |-> req.params, query |-> req.query,
                         body |-> r.value]
              /\ bodyUsed' = (bodyUsed \/ r.consumed)
              /\ bodyReads' = IF r.read THEN Append(bodyReads, "extraction")
                              ELSE bodyReads
     ELSE /\ raw' = [params |-> req.params, query |-> req.query,
                     body |-> Undefined]
          /\ UNCHANGED <<bodyUsed, bodyReads>>
  /\ pc' = "validate"
  /\ UNCHANGED <<route, req, gi, input, heap, ctx, calls, outcomes,
                 schemaCalls, handlerRead, response, fault>>
  /\ UNCHANGED <<groupVars, runtimeVars, queryVars, requestId, conc>>

\* handle: validateInputs, then the initial context with empty locals
Validate ==
  /\ pc = "validate"
  /\ input' = validateInputs(route.request, raw)
  /\ schemaCalls' = SafeParseCalls(route.request)
  /\ calls' = Append(calls, Call("validate", 0))
  /\ heap' = <<EmptyLocals>>
  /\ ctx' = 1
  /\ IF AfterValidation(input') = "hook"
     THEN pc' = "hook" /\ UNCHANGED response
     ELSE pc' = "done" /\ response' = [kind |-> "validationError", idx |-> 0]
  /\ UNCHANGED <<route, req, gi, raw, outcomes, bodyUsed, bodyReads,
                 handlerRead, fault>>
  /\ UNCHANGED <<groupVars, runtimeVars, queryVars, requestId, conc>>

\* handle: if (onRequest) await onRequest(context)
HookCall ==
  /\ pc = "hook"
  /\ IF route.hasHook
     THEN pc' = "hookWait" /\ calls' = Append(calls, Call("hook", 0))
     ELSE pc' = "guards" /\ UNCHANGED calls
  /\ UNCHANGED <<route, req, gi, raw, input, heap, ctx, outcomes,
                 schemaCalls, bodyUsed, bodyReads, handlerRead, response,
                 fault>>
  /\ UNCHANGED <<groupVars, runtimeVars, queryVars, requestId, conc>>

\* the hook resolves: a patch makes a new context, a throw leaves handle
HookResolve ==
  /\ pc = "hookWait"
  /\ \E res \in HookResults :
       /\ outcomes' = Append(outcomes, Outcome("hook", 0, res))
       /\ IF res.kind = "throw"
          THEN /\ pc' = "thrown"
               /\ fault' = [stage |-> "hook", idx |-> 0, ref |-> 0]
               /\ UNCHANGED <<heap, ctx>>
               /\ UNCHANGED response
          ELSE IF OnHookResult(res) = "return"
          THEN /\ pc' = "done"
               /\ response' = [kind |-> "hook", idx |-> 0]
               /\ UNCHANGED <<heap, ctx, fault>>
          ELSE /\ pc' = "guards"
               /\ UNCHANGED <<fault, response>>
               /\ IF res.hasLocals
                  THEN LET m == MergeContext(heap, ctx, res.locals)
                       IN  heap' = m.heap /\ ctx' = m.ctx
                  ELSE UNCHANGED <<heap, ctx>>
  /\ UNCHANGED <<route, req, gi, raw, input, calls, schemaCalls, bodyUsed,
                 bodyReads, handlerRead>>
  /\ UNCHANGED <<groupVars, runtimeVars, queryVars, requestId, conc>>

\* a bug: the error carries the context handle started with, without the
\* locals accumulated since
AttachedContext_initial(c) == 1

\* catch (error) { (error as any).context = context; throw error }: the
\* context current when the guard was called
AttachedContext(c) == c

\* a bug: the core gives up on a stage that does not settle and goes on
Settles_timeout(rt, rq, stage, idx) == TRUE

\* `await guard(context)` / `await matched.handler.handler(context)`: handle
\* goes on when the promise of the stage settles, and only then
Settles(rt, rq, stage, idx) ==
  rq.hangs # (IF stage = "handler" THEN rt.numGuards + 1 ELSE idx)

\* a bug: the guards are started without awaiting the one before
LoopAtHead_noAwait(p) == p \in {"guards", "guardWait"}

\* `await guard(context)` in the for loop: the next guard is only called once
\* the loop is back at its head, the guard before having resolved
LoopAtHead(p) == p = "guards"

\* handle: for (const guard of guards) await guard(context)
GuardCall ==
  /\ LoopAtHead(pc)
  /\ gi <= route.numGuards
  /\ pc' = "guardWait"
  /\ calls' = Append(calls, Call("guard", gi))
  /\ UNCHANGED <<route, req, gi, raw, input, heap, ctx, outcomes,
                 schemaCalls, bodyUsed, bodyReads, handlerRead, response,
                 fault>>
  /\ UNCHANGED <<groupVars, runtimeVars, queryVars, requestId, conc>>

\* the guard resolves: deny returns its response, allow merges its locals
\* into a new context, a throw leaves handle with the context attached
GuardResolve ==
  /\ pc = "guardWait"
  /\ Settles(route, req, "guard", gi)
  /\ \E res \in GuardResults :
       /\ GuardMay(res, gi, req)
       /\ outcomes' = Append(outcomes, Outcome("guard", gi, res))
       /\ IF res.kind = "throw"
          THEN /\ pc' = "thrown"
               /\ fault' = [stage |-> "guard", idx |-> gi,
                            ref |-> AttachedContext(ctx)]
               /\ UNCHANGED <<heap, ctx, gi, response>>
          ELSE IF OnGuardResult(res) = "return"
          THEN /\ pc' = "done"
               /\ response' = [kind |-> "deny", idx |-> gi]
               /\ UNCHANGED <<heap, ctx, gi, fault>>
          ELSE /\ pc' = "guards"
               /\ gi' = gi + 1
               /\ UNCHANGED <<response, fault>>
               /\ IF res.hasLocals
                  THEN LET m == MergeContext(heap, ctx, res.locals)
                       IN  heap' = m.heap /\ ctx' = m.ctx
                  ELSE UNCHANGED <<heap, ctx>>
  /\ UNCHANGED <<route, req, raw, input, calls, schemaCalls, bodyUsed,
                 bodyReads, handlerRead>>
  /\ UNCHANGED <<groupVars, runtimeVars, queryVars, requestId, conc>>

\* handle: all guards passed, await matched.handler.handler(context)
HandlerCall ==
  /\ pc = "guards"
  /\ gi > route.numGuards
  /\ pc' = "handlerWait"
  /\ calls' = Append(calls, Call("handler", 0))
  /\ UNCHANGED <<route, req, gi, raw, input, heap, ctx, outcomes,
                 schemaCalls, bodyUsed, bodyReads, handlerRead, response,
                 fault>>
  /\ UNCHANGED <<groupVars, runtimeVars, queryVars, requestId, conc>>

\* the handler reads c.req's body itself (req.json(), req.text()): a used
\* stream makes the read fail
HandlerReadBody ==
  /\ pc = "handlerWait"
  /\ handlerRead = "none"
  /\ req.body # "none"
  /\ IF bodyUsed
     THEN handlerRead' = "failed" /\ UNCHANGED <<bodyUsed, bodyReads>>
     ELSE /\ handlerRead' = "ok"
          /\ bodyUsed' = TRUE
          /\ bodyReads' = Append(bodyReads, "handler")
  /\ UNCHANGED <<route, req, pc, gi, raw, input, heap, ctx, calls, outcomes,
                 schemaCalls, response, fault>>
  /\ UNCHANGED <<groupVars, runtimeVars, queryVars, requestId, conc>>

\* the handler resolves with its response, or throws
HandlerResolve ==
  /\ pc = "handlerWait"
  /\ Settles(route, req, "handler", 0)
  /\ \E res \in HandlerResults :
       /\ (res = "validationError") => ~input.ok
       /\ outcomes' = Append(outcomes,
            [stage |-> "handler", idx |-> 0, kind |-> res,
             hasLocals |-> FALSE, locals |-> EmptyLocals])
       /\ IF res = "throw"
          THEN /\ pc' = "thrown"
               /\ fault' = [stage |-> "handler", idx |-> 0, ref |-> ctx]
               /\ UNCHANGED response
          ELSE /\ pc' = "done"
               /\ response' = [kind |-> res, idx |-> 0]
               /\ UNCHANGED fault
  /\ UNCHANGED <<route, req, gi, raw, input, heap, ctx, calls, schemaCalls,
                 bodyUsed, bodyReads, handlerRead>>
  /\ UNCHANGED <<groupVars, runtimeVars, queryVars, requestId, conc>>

Next ==
  \/ Match
  \/ Extract
  \/ Validate
  \/ HookCall
  \/ HookResolve
  \/ GuardCall
  \/ GuardResolve
  \/ HandlerCall
  \/ HandlerReadBody
  \/ HandlerResolve

Spec == Init /\ [][Next]_vars

TypeOK ==
  /\ pc \in {"start", "extract", "validate", "hook", "hookWait", "guards",
             "guardWait", "handlerWait", "done", "thrown"}
  /\ gi \in 1..(MaxGuards + 1)
  /\ ctx \in 0..Len(heap)

(* ------------------- validation.ts (ValidatorAdapter) ------------------ *)

\* Content-Type headers of the requests
ContentTypes ==
  {"application/json", "multipart/form-data", "text/plain", "application/xml",
   ""}

\* bodies of the requests: BodyKinds and a form-encoded body
BridgeBodies == BodyKinds \cup {"form"}

BridgeRoutes ==
  [ request : { [defined |-> FALSE, parts |-> {}] } \cup
              { [defined |-> TRUE, parts |-> s] : s \in SUBSET PartSet },
    validator : BOOLEAN ]

\* raw values for which the adapter reports { ok: false, errors: [] }
SilentlyRejected == {"q_silent"}

BridgeRequests ==
  [ params : ParamValues, query : QueryValues \cup SilentlyRejected,
    body : BridgeBodies, contentType : ContentTypes ]

\* messages of the SyntaxError that request.json() rejects with
JsonMessages == {"Unexpected token in JSON", "Unexpected end of JSON input"}

\* error.message.includes("JSON")
IncludesJSON(msg) == msg \in JsonMessages

\* request.json(), request.formData(), request.text() on the body
PlatformRead(method, b) ==
  CASE method = "json" ->
         IF b \in {"json_ok", "json_bad"}
         THEN [threw |-> FALSE, data |-> JsonValue(b), message |-> ""]
         ELSE [threw |-> TRUE, data |-> Undefined,
               message |-> IF b = "none" THEN "Unexpected end of JSON input"
                           ELSE "Unexpected token in JSON"]
    [] method = "formData" ->
         IF b = "form"
         THEN [threw |-> FALSE, data |-> "f_data", message |-> ""]
         ELSE [threw |-> TRUE, data |-> Undefined,
               message |-> "Body can not be decoded as form data"]
    [] OTHER -> [threw |-> FALSE, data |-> "text", message |-> ""]

\* a bug: a missing or unknown Content-Type is read as JSON
ReadMethod_jsonDefault(ct) ==
  CASE ct = "multipart/form-data" -> "formData"
    [] ct = "text/plain" -> "text"
    [] OTHER -> "json"

\* the branch of parseBody a Content-Type selects
ReadMethod(ct) ==
  CASE ct = "application/json" -> "json"
    [] ct = "multipart/form-data" -> "formData"
    [] OTHER -> "text"

\* a bug: the parse error's own message is reported for JSON too
parseBodyCT_rawMessage(rq) ==
  LET r == PlatformRead(ReadMethod(rq.contentType), rq.body)
  IN  IF r.threw
      THEN [ok |-> FALSE, data |-> Undefined,
            errors |-> << [path |-> <<"body">>, message |-> r.message] >>]
      ELSE [ok |-> TRUE, data |-> r.data, errors |-> <<>>]

\* parseBody(request): the body by Content-Type; a parse failure is the
\* error {path:["body"], message}, "Invalid JSON" for a JSON failure
parseBodyCT(rq) ==
  LET r == PlatformRead(ReadMethod(rq.contentType), rq.body)
  IN  IF r.threw
      THEN [ok |-> FALSE, data |-> Undefined,
            errors |-> << [path |-> <<"body">>,
                           message |-> IF IncludesJSON(r.message)
                                       THEN "Invalid JSON"
                                       ELSE r.message] >>]
      ELSE [ok |-> TRUE, data |-> r.data, errors |-> <<>>]

\* ValidatorAdapter.parse(schema, data) for the schema of part p
adapterParse(p, data) ==
  IF data \in Accepted
  THEN [ok |-> TRUE, data |-> Parsed(data), errors |-> <<>>]
  ELSE IF data \in SilentlyRejected
  THEN [ok |-> FALSE, data |-> Undefined, errors |-> <<>>]
  ELSE [ok |-> FALSE, data |-> Undefined,
        errors |-> << [path |-> <<"field">>,
                       message |-> "Validation failed"] >>]

\* one declared part of validateInput: its value and its errors
BridgePart(cfg, p, data) ==
  IF p \in cfg.parts
  THEN LET v == adapterParse(p, data)
       IN  IF v.ok THEN [value |-> v.data, errors |-> <<>>]
           ELSE [value |-> Undefined, errors |-> v.errors]
  ELSE [value |-> Undefined, errors |-> <<>>]

\* a bug: a body that does not parse ends validateInput at once, the other
\* parts are not validated
OnBodyParseFailure_return(bp) == "return"

\* if (!bodyParseResult.ok) errors.push(...bodyParseResult.errors): the
\* errors are collected and validateInput goes on with query and params
OnBodyParseFailure(bp) == "collect"

\* validateInput(request, params, inputConfig, validator): threw, or the
\* ValidatedInput; bridge: the adapter calls made; read: the body was read
validateInput(rq, prm, cfg, validator) ==
  IF ~cfg.defined
  THEN [threw |-> FALSE, bridge |-> <<>>, read |-> FALSE, data |-> Undefined,
        input |-> [ok |-> TRUE, body |-> Undefined, query |-> Undefined,
                   params |-> Undefined]]
  ELSE IF cfg.parts # {} /\ ~validator
  THEN [threw |-> TRUE, bridge |-> <<>>, read |-> FALSE, data |-> Undefined,
        input |-> NoInput]
  ELSE LET bp == parseBodyCT(rq)
           bodyParsed == "body" \in cfg.parts /\ bp.ok
           vb == IF "body" \in cfg.parts /\ ~bp.ok
                 THEN [value |-> Undefined, errors |-> bp.errors]
                 ELSE BridgePart(cfg, "body", bp.data)
           stop == /\ "body" \in cfg.parts /\ ~bp.ok
                   /\ OnBodyParseFailure(bp) = "return"
           vq == IF stop THEN [value |-> Undefined, errors |-> <<>>]
                 ELSE BridgePart(cfg, "query", rq.query)
           vp == IF stop THEN [value |-> Undefined, errors |-> <<>>]
                 ELSE BridgePart(cfg, "params", prm)
           errors == vb.errors \o vq.errors \o vp.errors
       IN  [threw |-> FALSE,
            bridge |-> SelectSeq(<<"body", "query", "params">>, LAMBDA p :
                         p \in cfg.parts /\ (p = "body" => bodyParsed)),
            read |-> "body" \in cfg.parts,
            data |-> IF "body" \in cfg.parts THEN bp.data ELSE Undefined,
            input |-> IF Len(errors) > 0
                      THEN [ok |-> FALSE, errors |-> errors]
                      ELSE [ok |-> TRUE, body |-> vb.value,
                            query |-> vq.value, params |-> vp.value]]

InitBridge ==
  /\ route \in BridgeRoutes
  /\ req \in BridgeRequests
  /\ pc = "bridge"
  /\ gi = 1
  /\ raw = NoRaw
  /\ input = NoInput
  /\ heap = <<>>
  /\ ctx = 0
  /\ calls = <<>>
  /\ outcomes = <<>>
  /\ schemaCalls = <<>>
  /\ bodyUsed = FALSE
  /\ bodyReads = <<>>
  /\ handlerRead = "none"
  /\ response = NoResponse
  /\ fault = NoFault
  /\ app = NoApp
  /\ registry = <<>>
  /\ cur = 0
  /\ executed = <<>>
  /\ served = 0
  /\ config = LegacyConfig
  /\ headers = NoHeaders
  /\ errorCalls = <<>>
  /\ logged = <<>>
  /\ sent = <<>>
  /\ search = <<>>
  /\ parsedQuery = EmptyObject
  /\ requestId = NoRequestId
  /\ conc = NoConc

\* the pipeline awaits validateInput for the matched route
BridgeValidate ==
  /\ pc = "bridge"
  /\ LET r == validateInput(req, req.params, route.request, route.validator)
     IN  /\ input' = r.input
         /\ raw' = [params |-> req.params, query |-> req.query,
                    body |-> r.data]
         /\ schemaCalls' = r.bridge
         /\ bodyUsed' = r.read
         /\ bodyReads' = IF r.read THEN <<"validation">> ELSE <<>>
         /\ IF r.threw
            THEN /\ pc' = "thrown"
                 /\ fault' = [stage |-> "validation", idx |-> 0, ref |-> 0]
            ELSE /\ pc' = "validated"
                 /\ UNCHANGED fault
  /\ UNCHANGED <<route, req, gi, heap, ctx, calls, outcomes,
                 handlerRead, response>>
  /\ UNCHANGED <<groupVars, runtimeVars, queryVars, requestId, conc>>

NextBridge == BridgeValidate

SpecBridge == InitBridge /\ [][NextBridge]_vars

(* ------------------------------- group.ts ------------------------------ *)

\* longest guard list declared at one level (a group's, a route's own)
MaxLevelGuards == 2

\* requests served after setup
MaxRequests == 2

\* a guard function, known by the scope that declares it and its rank there
GuardsOf(scope) == [scope : {scope}, n : 1..MaxLevelGuards]

\* the guard arrays a scope may declare: every order of every choice of its
\* guards, each guard at most once
GuardLists(scope) ==
  UNION { { g \in [1..len -> GuardsOf(scope)] :
              \A i, j \in 1..len : i # j => g[i] # g[j] } :
          len \in 0..MaxLevelGuards }

\* route.get(path, {resolve}) with guards of its own
RouteExpr(path, guards) ==
  [isGroup |-> FALSE, path |-> path, guards |-> guards, children |-> <<>>]

\* group({ handlers: children, guards })
GroupExpr(guards, children) ==
  [isGroup |-> TRUE, path |-> "", guards |-> guards, children |-> children]

\* applications: an outer group holding an inner group with one route, and
\* possibly a route of its own next to it
Apps ==
  { GroupExpr(o, <<GroupExpr(i, <<RouteExpr("/api/users", r)>>)>> \o d) :
      o \in GuardLists("outer"), i \in GuardLists("inner"),
      r \in GuardLists("route"),
      d \in {<<>>, <<RouteExpr("/health", <<>>)>>,
             <<RouteExpr("/health", <<[scope |-> "health", n |-> 1]>>)>>} }

NoHandler == [path |-> "", guards |-> <<>>]

\* a HandlerGroup item that is a single Handler
HandlerItem(h) == [isArray |-> FALSE, handler |-> h, items |-> <<>>]

\* a HandlerGroup item that is an array
ArrayItem(items) == [isArray |-> TRUE, handler |-> NoHandler, items |-> items]

RECURSIVE group(_), Flatten(_)

\* the loop of group(): arrays are flattened by group(item), handlers pushed
Flatten(handlers) ==
  IF handlers = <<>> THEN <<>>
  ELSE LET item == Head(handlers)
       IN  (IF item.isArray
            THEN group([handlers |-> item.items, guards |-> <<>>])
            ELSE <<item.handler>>) \o Flatten(Tail(handlers))

\* a bug: the group's guards are put behind the handler's guards
group_guardsAppended(options) ==
  LET result == Flatten(options.handlers)
  IN  IF Len(options.guards) > 0
      THEN [i \in 1..Len(result) |->
              [result[i] EXCEPT !.guards = result[i].guards \o options.guards]]
      ELSE result

\* group(options): the flat handler list; a group with guards returns new
\* handlers whose guards are the group's followed by the handler's
group(options) ==
  LET result == Flatten(options.handlers)
  IN  IF Len(options.guards) > 0
      THEN [i \in 1..Len(result) |->
              [result[i] EXCEPT !.guards = options.guards \o result[i].guards]]
      ELSE result

RECURSIVE Eval(_)

\* the value of the application's expression: inner group() calls are
\* arguments of the outer one, so they are evaluated first
Eval(e) ==
  group([handlers |->
           [i \in 1..Len(e.children) |->
              IF e.children[i].isGroup
              THEN LET hs == Eval(e.children[i])
                   IN  ArrayItem([k \in 1..Len(hs) |-> HandlerItem(hs[k])])
              ELSE HandlerItem([path |-> e.children[i].path,
                                guards |-> e.children[i].guards])],
         guards |-> e.guards])

\* a matched route with no request schemas, for the guard loop alone
PlainRoute ==
  [request |-> [defined |-> FALSE, parts |-> {}], numGuards |-> 0,
   hasHook |-> FALSE]

InitGroup ==
  /\ route = PlainRoute
  /\ req = UnmatchedRequest
  /\ pc = "setup"
  /\ gi = 1
  /\ raw = NoRaw
  /\ input = NoInput
  /\ heap = <<>>
  /\ ctx = 0
  /\ calls = <<>>
  /\ outcomes = <<>>
  /\ schemaCalls = <<>>
  /\ bodyUsed = FALSE
  /\ bodyReads = <<>>
  /\ handlerRead = "none"
  /\ response = NoResponse
  /\ fault = NoFault
  /\ app \in Apps
  /\ registry = <<>>
  /\ cur = 0
  /\ executed = <<>>
  /\ served = 0
  /\ config = LegacyConfig
  /\ headers = NoHeaders
  /\ errorCalls = <<>>
  /\ logged = <<>>
  /\ sent = <<>>
  /\ search = <<>>
  /\ parsedQuery = EmptyObject
  /\ requestId = NoRequestId
  /\ conc = NoConc

\* setupNimble(group({...})): the handler list is built once, at setup
Register ==
  /\ pc = "setup"
  /\ registry' = Eval(app)
  /\ pc' = "listening"
  /\ UNCHANGED <<route, req, gi, raw, input, heap, ctx, calls, outcomes,
                 schemaCalls, bodyUsed, bodyReads, handlerRead, response,
                 fault, app, cur, executed, served>>
  /\ UNCHANGED <<runtimeVars, queryVars, requestId, conc>>

\* a request arrives and match() finds a registered handler
Dispatch ==
  /\ pc = "listening"
  /\ served < MaxRequests
  /\ \E i \in 1..Len(registry) : cur' = i
  /\ gi' = 1
  /\ executed' = <<>>
  /\ pc' = "guardLoop"
  /\ UNCHANGED <<route, req, raw, input, heap, ctx, calls, outcomes,
                 schemaCalls, bodyUsed, bodyReads, handlerRead, response,
                 fault, app, registry, served>>
  /\ UNCHANGED <<runtimeVars, queryVars, requestId, conc>>

\* for (const guard of matched.handler.guards): the next guard runs, allows
RunGuard ==
  /\ pc = "guardLoop"
  /\ gi <= Len(registry[cur].guards)
  /\ executed' = Append(executed, registry[cur].guards[gi])
  /\ gi' = gi + 1
  /\ UNCHANGED <<route, req, pc, raw, input, heap, ctx, calls, outcomes,
                 schemaCalls, bodyUsed, bodyReads, handlerRead, response,
                 fault, app, registry, cur, served>>
  /\ UNCHANGED <<runtimeVars, queryVars, requestId, conc>>

\* all guards passed: the handler answers
RunHandler ==
  /\ pc = "guardLoop"
  /\ gi > Len(registry[cur].guards)
  /\ served' = served + 1
  /\ pc' = "listening"
  /\ UNCHANGED <<route, req, gi, raw, input, heap, ctx, calls, outcomes,
                 schemaCalls, bodyUsed, bodyReads, handlerRead, response,
                 fault, app, registry, cur, executed>>
  /\ UNCHANGED <<runtimeVars, queryVars, requestId, conc>>

NextGroup ==
  \/ Register
  \/ Dispatch
  \/ RunGuard
  \/ RunHandler

SpecGroup == InitGroup /\ [][NextGroup]_vars

(* ------------- group.ts: one route object placed in two groups ---------- *)

\* applications in which the same route object is a handler of two groups:
\* const r = route.get(...); [group({ handlers: [r], guards: a }),
\*                            group({ handlers: [r], guards: b })]
SharingApps ==
  { GroupExpr(<<>>, << GroupExpr(a, <<RouteExpr("/api/users", r)>>),
                       GroupExpr(b, <<RouteExpr("/api/users", r)>>) >>) :
      a \in GuardLists("outer"), b \in GuardLists("inner"),
      r \in GuardLists("route") }

\* a bug: the group's guards are written into the handler object passed in
\* (handler.guards = [...guards, ...handler.guards]; return handler)
WithGuards_inPlace(objs, ref, guards) ==
  [heap |-> [objs EXCEPT ![ref].guards = guards \o @], ref |-> ref]

\* ({ ...handler, guards: [...guards, ...(handler.guards || [])] }): a new
\* handler object with a new guards array; the one passed in is only read
WithGuards(objs, ref, guards) ==
  [heap |-> Append(objs, [objs[ref] EXCEPT !.guards = guards \o @]),
   ref |-> Len(objs) + 1]

\* group({ handlers: [the object at ref], guards }): the handler it returns;
\* without guards that is the object passed in
GroupOne(objs, ref, guards) ==
  IF Len(guards) > 0 THEN WithGuards(objs, ref, guards)
  ELSE [heap |-> objs, ref |-> ref]

InitShare ==
  /\ route = PlainRoute
  /\ req = UnmatchedRequest
  /\ pc = "setup"
  /\ gi = 1
  /\ raw = NoRaw
  /\ input = NoInput
  /\ app \in SharingApps
  /\ heap = << [path |-> app.children[1].children[1].path,
                guards |-> app.children[1].children[1].guards] >>
  /\ ctx = 0
  /\ calls = <<>>
  /\ outcomes = <<>>
  /\ schemaCalls = <<>>
  /\ bodyUsed = FALSE
  /\ bodyReads = <<>>
  /\ handlerRead = "none"
  /\ response = NoResponse
  /\ fault = NoFault
  /\ registry = <<>>
  /\ cur = 0
  /\ executed = <<>>
  /\ served = 0
  /\ config = LegacyConfig
  /\ headers = NoHeaders
  /\ errorCalls = <<>>
  /\ logged = <<>>
  /\ sent = <<>>
  /\ search = <<>>
  /\ parsedQuery = EmptyObject
  /\ requestId = NoRequestId
  /\ conc = NoConc

\* the next group() call of the application is evaluated on the route
\* object, and the handler it returns is registered
GroupCall ==
  /\ pc = "setup"
  /\ cur < Len(app.children)
  /\ LET g == GroupOne(heap, 1, app.children[cur + 1].guards)
     IN  /\ heap' = g.heap
         /\ registry' = Append(registry, g.ref)
  /\ cur' = cur + 1
  /\ UNCHANGED <<route, req, pc, gi, raw, input, ctx, calls, outcomes,
                 schemaCalls, bodyUsed, bodyReads, handlerRead, response,
                 fault, app, executed, served>>
  /\ UNCHANGED <<runtimeVars, queryVars, requestId, conc>>

NextShare == GroupCall

SpecShare == InitShare /\ [][NextShare]_vars

(* ------------------------------ runtime.ts ----------------------------- *)

\* status of the router's not-found response
NotFoundStatus == 404

\* status of the default onError response
InternalServerErrorStatus == 500

\* NimbleConfig: the caller's onError, or none
Configs == { [onError |-> "default"], [onError |-> "custom"] }

\* the two request headers a request id is taken from
HeaderSets ==
  [ xRequestId : {Absent, "req-12345"}, xCorrelationId : {Absent, "corr-1"} ]

\* values crypto.randomUUID() may return
UUIDs == {"uuid-a", "uuid-b"}

\* body of a response: its text and the fault detail it carries, if any
Body(text, detail) == [text |-> text, detail |-> detail]

\* guardResult.deny: the Response the deny of guard i carries; each guard
\* brings its own
DenyResponseOf(i) ==
  [origin |-> "guard", status |-> IF i = 1 THEN 401 ELSE 403,
   body |-> Body(IF i = 1 THEN "Unauthorized" ELSE "Forbidden", NoFault)]

\* a bug: a denial is answered with a response of the router's own
ResponseOf_denyRewritten(resp) ==
  CASE resp.kind = "notFound" ->
         [origin |-> "router", status |-> NotFoundStatus,
          body |-> Body("Not Found", NoFault)]
    [] resp.kind = "deny" ->
         [origin |-> "router", status |-> 403,
          body |-> Body("Forbidden", NoFault)]
    [] resp.kind = "validationError" ->
         [origin |-> "handler", status |-> 400,
          body |-> Body("Validation failed", NoFault)]
    [] OTHER ->
         [origin |-> "handler", status |-> 200, body |-> Body("OK", NoFault)]

\* the Response router.handle resolves with
ResponseOf(resp) ==
  CASE resp.kind = "notFound" ->
         [origin |-> "router", status |-> NotFoundStatus,
          body |-> Body("Not Found", NoFault)]
    [] resp.kind = "deny" -> DenyResponseOf(resp.idx)
    [] resp.kind = "validationError" ->
         [origin |-> "handler", status |-> 400,
          body |-> Body("Validation failed", NoFault)]
    [] OTHER ->
         [origin |-> "handler", status |-> 200, body |-> Body("OK", NoFault)]

\* a bug: no try around router.handle, a throw leaves fetch
FetchCatches_noTry == FALSE

\* fetch: try { return await router.handle(req) } catch (error) { ... }
FetchCatches == TRUE

\* x-request-id ?? x-correlation-id ?? crypto.randomUUID()
RequestIdOf(hd, uuid) ==
  IF hd.xRequestId # Absent THEN hd.xRequestId
  ELSE IF hd.xCorrelationId # Absent THEN hd.xCorrelationId
  ELSE uuid

\* a bug: onError gets the request and the error, and no request id
ErrorContext_noRequestId(rq, hd, uuid, err) ==
  [request |-> rq, requestId |-> Undefined, error |-> err]

\* the ErrorContext fetch hands to onError
ErrorContext(rq, hd, uuid, err) ==
  [request |-> rq, requestId |-> RequestIdOf(hd, uuid), error |-> err]

\* a bug: the caller's onError is never used
OnErrorOf_ignoreCustom(cfg) == "default"

\* config.onError ?? defaultOnError
OnErrorOf(cfg) == cfg.onError

\* a bug: the response tells the caller what was thrown
defaultOnError_echo(c) ==
  [log |-> [requestId |-> c.requestId, error |-> c.error],
   response |-> [origin |-> "defaultOnError",
                 status |-> InternalServerErrorStatus,
                 body |-> Body("Internal Server Error", c.error)]]

\* defaultOnError: console.error with the request id and the error, then
\* Response.json({ error: "Internal Server Error" }, { status: 500 })
defaultOnError(c) ==
  [log |-> [requestId |-> c.requestId, error |-> c.error],
   response |-> [origin |-> "defaultOnError",
                 status |-> InternalServerErrorStatus,
                 body |-> Body("Internal Server Error", NoFault)]]

\* responses an onError of the caller may return: the sanitized one of the
\* documentation, another status, or one that reports the error it was given
CustomOnErrorResponses(c) ==
  { [origin |-> "customOnError", status |-> InternalServerErrorStatus,
     body |-> Body("Internal Server Error", NoFault)],
    [origin |-> "customOnError", status |-> 503,
     body |-> Body("Service Unavailable", NoFault)],
    [origin |-> "customOnError", status |-> InternalServerErrorStatus,
     body |-> Body("Unhandled error", c.error)] }

\* what an onError of the caller may do: return one of its responses, or
\* throw itself; `return await onError(...)` stands in the catch block, so
\* its throw is the rejection of fetch
CustomOnErrorOutcomes(c) ==
  { [threw |-> FALSE, response |-> r] : r \in CustomOnErrorResponses(c) } \cup
  { [threw |-> TRUE,
     response |-> [origin |-> "none", status |-> 0,
                   body |-> Body("", NoFault)]] }

\* routes and requests served through fetch: fetch passes no onRequest hook
\* to router.handle
RuntimeRoutes ==
  { rt \in Routes : ~rt.hasHook /\ rt.request.parts \subseteq {"body"} }

RuntimeRequests(rt) ==
  { rq \in MatchedRequests(rt) :
      rq.params = "42" /\ rq.query = "q_ok" /\ rq.body \in {"none", "json_ok"} }

InitRuntime ==
  /\ route \in RuntimeRoutes
  /\ req \in RuntimeRequests(route) \cup {UnmatchedRequest}
  /\ pc = "start"
  /\ gi = 1
  /\ raw = NoRaw
  /\ input = NoInput
  /\ heap = <<>>
  /\ ctx = 0
  /\ calls = <<>>
  /\ outcomes = <<>>
  /\ schemaCalls = <<>>
  /\ bodyUsed = FALSE
  /\ bodyReads = <<>>
  /\ handlerRead = "none"
  /\ response = NoResponse
  /\ fault = NoFault
  /\ app = NoApp
  /\ registry = <<>>
  /\ cur = 0
  /\ executed = <<>>
  /\ served = 0
  /\ config \in Configs
  /\ headers \in HeaderSets
  /\ errorCalls = <<>>
  /\ logged = <<>>
  /\ sent = <<>>
  /\ search = <<>>
  /\ parsedQuery = EmptyObject
  /\ requestId = NoRequestId
  /\ conc = NoConc

\* fetch: return await router.handle(req)
FetchReturn ==
  /\ pc = "done"
  /\ sent' = Append(sent, ResponseOf(response))
  /\ pc' = "returned"
  /\ UNCHANGED <<route, req, gi, raw, input, heap, ctx, calls, outcomes,
                 schemaCalls, bodyUsed, bodyReads, handlerRead, response,
                 fault, groupVars, config, headers, errorCalls, logged>>
  /\ UNCHANGED <<queryVars, requestId, conc>>

\* fetch: catch (error): the request id is resolved and onError is called
Catch ==
  /\ pc = "thrown"
  /\ IF FetchCatches
     THEN /\ \E uuid \in UUIDs :
               errorCalls' =
                 Append(errorCalls, ErrorContext(req, headers, uuid, fault))
          /\ pc' = "onError"
     ELSE /\ pc' = "rejected"
          /\ UNCHANGED errorCalls
  /\ UNCHANGED <<route, req, gi, raw, input, heap, ctx, calls, outcomes,
                 schemaCalls, bodyUsed, bodyReads, handlerRead, response,
                 fault, groupVars, config, headers, logged, sent>>
  /\ UNCHANGED <<queryVars, requestId, conc>>

\* fetch: return await onError({ request, requestId, error })
OnErrorResolve ==
  /\ pc = "onError"
  /\ LET c == errorCalls[Len(errorCalls)]
     IN  IF OnErrorOf(config) = "default"
         THEN /\ logged' = Append(logged, defaultOnError(c).log)
              /\ sent' = Append(sent, defaultOnError(c).response)
              /\ pc' = "returned"
         ELSE /\ \E o \in CustomOnErrorOutcomes(c) :
                   IF o.threw
                   THEN pc' = "rejected" /\ UNCHANGED sent
                   ELSE pc' = "returned" /\ sent' = Append(sent, o.response)
              /\ UNCHANGED logged
  /\ UNCHANGED <<route, req, gi, raw, input, heap, ctx, calls, outcomes,
                 schemaCalls, bodyUsed, bodyReads, handlerRead, response,
                 fault, groupVars, config, headers, errorCalls>>
  /\ UNCHANGED <<queryVars, requestId, conc>>

NextRuntime ==
  \/ Match
  \/ Extract
  \/ Validate
  \/ HookCall
  \/ GuardCall
  \/ GuardResolve
  \/ HandlerCall
  \/ HandlerReadBody
  \/ HandlerResolve
  \/ FetchReturn
  \/ Catch
  \/ OnErrorResolve

SpecRuntime == InitRuntime /\ [][NextRuntime]_vars

(* ------------- runtime.ts with onRequest and onResponse hooks ----------- *)

\* NimbleConfig of the setupNimble that takes hooks: the caller's onError,
\* onRequest and onResponse, each optional
HookConfigs ==
  [ onError : {"default", "custom"}, onRequest : BOOLEAN,
    onResponse : BOOLEAN ]

\* what onRequest(req) may do: return a locals patch, or throw
OnRequestResults ==
  { [kind |-> "patch", hasLocals |-> TRUE, locals |-> p] : p \in Patches } \cup
  { [kind |-> "throw", hasLocals |-> FALSE, locals |-> EmptyLocals] }

\* what onResponse(req, response) may do: return the response it was given,
\* return another one, or throw
OnResponseResults == {"same", "replaced", "throw"}

\* the Response onResponse returns
OnResponseOf(res, resp) ==
  IF res = "same" THEN resp
  ELSE [origin |-> "onResponse", status |-> resp.status,
        body |-> Body("Rewritten", NoFault)]

\* a bug: onResponse sits in a finally block and also runs after onError
AfterOnError_finally(cfg) == IF cfg.onResponse THEN "onResponse" ELSE "return"

\* what fetch does once onError has returned: it returns that response
AfterOnError(cfg) == "return"

\* the ErrorContext of this setupNimble: the request and the error; it has no
\* request id, the field is kept and is undefined
HookErrorContext(rq, err) ==
  [request |-> rq, requestId |-> Undefined, error |-> err]

InitHooks ==
  /\ route \in RuntimeRoutes
  /\ req \in RuntimeRequests(route) \cup {UnmatchedRequest}
  /\ pc = "fetch"
  /\ gi = 1
  /\ raw = NoRaw
  /\ input = NoInput
  /\ heap = <<>>
  /\ ctx = 0
  /\ calls = <<>>
  /\ outcomes = <<>>
  /\ schemaCalls = <<>>
  /\ bodyUsed = FALSE
  /\ bodyReads = <<>>
  /\ handlerRead = "none"
  /\ response = NoResponse
  /\ fault = NoFault
  /\ app = NoApp
  /\ registry = <<>>
  /\ cur = 0
  /\ executed = <<>>
  /\ served = 0
  /\ config \in HookConfigs
  /\ headers = NoHeaders
  /\ errorCalls = <<>>
  /\ logged = <<>>
  /\ sent = <<>>
  /\ search = <<>>
  /\ parsedQuery = EmptyObject
  /\ requestId = NoRequestId
  /\ conc = NoConc

\* fetch: const initialLocals = onRequest ? await onRequest(req) : {}; then
\* router.handle is entered
FetchOnRequest ==
  /\ pc = "fetch"
  /\ IF config.onRequest
     THEN /\ calls' = Append(calls, Call("onRequest", 0))
          /\ \E res \in OnRequestResults :
               /\ outcomes' = Append(outcomes, Outcome("onRequest", 0, res))
               /\ IF res.kind = "throw"
                  THEN /\ pc' = "thrown"
                       /\ fault' = [stage |-> "onRequest", idx |-> 0, ref |-> 0]
                  ELSE pc' = "start" /\ UNCHANGED fault
     ELSE pc' = "start" /\ UNCHANGED <<calls, outcomes, fault>>
  /\ UNCHANGED <<route, req, gi, raw, input, heap, ctx, schemaCalls, bodyUsed,
                 bodyReads, handlerRead, response>>
  /\ UNCHANGED <<groupVars, runtimeVars, queryVars, requestId, conc>>

\* fetch: if (onResponse) response = await onResponse(req, response); then
\* return response
FetchOnResponse ==
  /\ pc = "done"
  /\ IF config.onResponse
     THEN /\ calls' = Append(calls, Call("onResponse", 0))
          /\ \E res \in OnResponseResults :
               IF res = "throw"
               THEN /\ pc' = "thrown"
                    /\ fault' = [stage |-> "onResponse", idx |-> 0, ref |-> 0]
                    /\ UNCHANGED sent
               ELSE /\ pc' = "returned"
                    /\ sent' =
                         Append(sent, OnResponseOf(res, ResponseOf(response)))
                    /\ UNCHANGED fault
     ELSE /\ pc' = "returned"
          /\ sent' = Append(sent, ResponseOf(response))
          /\ UNCHANGED <<calls, fault>>
  /\ UNCHANGED <<route, req, gi, raw, input, heap, ctx, outcomes, schemaCalls,
                 bodyUsed, bodyReads, handlerRead, response, groupVars,
                 config, headers, errorCalls, logged>>
  /\ UNCHANGED <<queryVars, requestId, conc>>

\* fetch: catch (error): onError({ request: req, error }) is called
HooksCatch ==
  /\ pc = "thrown"
  /\ errorCalls' = Append(errorCalls, HookErrorContext(req, fault))
  /\ pc' = "onError"
  /\ UNCHANGED <<route, req, gi, raw, input, heap, ctx, calls, outcomes,
                 schemaCalls, bodyUsed, bodyReads, handlerRead, response,
                 fault, groupVars, config, headers, logged, sent>>
  /\ UNCHANGED <<queryVars, requestId, conc>>

\* fetch: return await onError({ request: req, error })
HooksOnErrorResolve ==
  /\ pc = "onError"
  /\ LET c == errorCalls[Len(errorCalls)]
     IN  IF OnErrorOf(config) = "default"
         THEN /\ logged' = Append(logged, defaultOnError(c).log)
              /\ sent' = Append(sent, defaultOnError(c).response)
              /\ pc' = "returned"
         ELSE /\ \E o \in CustomOnErrorOutcomes(c) :
                   IF o.threw
                   THEN pc' = "rejected" /\ UNCHANGED sent
                   ELSE pc' = "returned" /\ sent' = Append(sent, o.response)
              /\ UNCHANGED logged
  /\ IF AfterOnError(config) = "onResponse" /\ pc' = "returned"
     THEN calls' = Append(calls, Call("onResponse", 0))
     ELSE UNCHANGED calls
  /\ UNCHANGED <<route, req, gi, raw, input, heap, ctx, outcomes,
                 schemaCalls, bodyUsed, bodyReads, handlerRead, response,
                 fault, groupVars, config, headers, errorCalls>>
  /\ UNCHANGED <<queryVars, requestId, conc>>

NextHooks ==
  \/ FetchOnRequest
  \/ Match
  \/ Extract
  \/ Validate
  \/ HookCall
  \/ GuardCall
  \/ GuardResolve
  \/ HandlerCall
  \/ HandlerReadBody
  \/ HandlerResolve
  \/ FetchOnResponse
  \/ HooksCatch
  \/ HooksOnErrorResolve

SpecHooks == InitHooks /\ [][NextHooks]_vars

(* --------------------------- resolveRequestId --------------------------- *)

\* longest traceparent header, in characters
MaxHeaderLen == 7

\* characters of a traceparent header: one that a field may consist of, and
\* the separator
HeaderChars == {"a", "-"}

\* strings of at most n characters, as sequences of characters
StringsUpTo(n) == UNION { [1..k -> HeaderChars] : k \in 0..n }

\* headers.get(name): null, or the header's value
Null == [present |-> FALSE, value |-> <<>>]

Value(str) == [present |-> TRUE, value |-> str]

\* the headers resolveRequestId reads
TraceHeaderSets ==
  [ traceparent : {Null} \cup { Value(h) : h \in StringsUpTo(MaxHeaderLen) },
    xRequestId : {Null, Value(<<"r">>)},
    xCorrelationId : {Null, Value(<<"c">>)} ]

\* values crypto.randomUUID() may return
RandomUUIDs == { <<"u">>, <<"v">> }

\* String.prototype.split("-"), from position i on: field is the field being
\* read, acc the fields completed
RECURSIVE SplitFrom(_, _, _, _)
SplitFrom(str, i, field, acc) ==
  IF i > Len(str) THEN Append(acc, field)
  ELSE IF str[i] = "-" THEN SplitFrom(str, i + 1, <<>>, Append(acc, field))
  ELSE SplitFrom(str, i + 1, Append(field, str[i]), acc)

Split(str) == SplitFrom(str, 1, <<>>, <<>>)

\* a ?? b
Coalesce(a, b) == IF a.present THEN a ELSE b

\* parseTraceParent: null for no header or an empty one, else the second of
\* the fields between dashes if there are at least two
parseTraceParent(header) ==
  IF ~header.present \/ header.value = <<>> THEN Null
  ELSE LET parts == Split(header.value)
       IN  IF Len(parts) >= 2 THEN Value(parts[2]) ELSE Null

\* resolveRequestId: traceparent ?? x-request-id ?? x-correlation-id ?? UUID
resolveRequestId(hd, uuid) ==
  Coalesce(parseTraceParent(hd.traceparent),
    Coalesce(hd.xRequestId, Coalesce(hd.xCorrelationId, Value(uuid)))).value

InitRequestId ==
  /\ route = PlainRoute
  /\ req = UnmatchedRequest
  /\ pc = "start"
  /\ gi = 1
  /\ raw = NoRaw
  /\ input = NoInput
  /\ heap = <<>>
  /\ ctx = 0
  /\ calls = <<>>
  /\ outcomes = <<>>
  /\ schemaCalls = <<>>
  /\ bodyUsed = FALSE
  /\ bodyReads = <<>>
  /\ handlerRead = "none"
  /\ response = NoResponse
  /\ fault = NoFault
  /\ app = NoApp
  /\ registry = <<>>
  /\ cur = 0
  /\ executed = <<>>
  /\ served = 0
  /\ config = LegacyConfig
  /\ headers \in TraceHeaderSets
  /\ errorCalls = <<>>
  /\ logged = <<>>
  /\ sent = <<>>
  /\ search = <<>>
  /\ parsedQuery = EmptyObject
  /\ requestId = NoRequestId
  /\ conc = NoConc

\* resolveRequestId(headers) is called once
ResolveRequestId ==
  /\ ~requestId.resolved
  /\ \E uuid \in RandomUUIDs :
       requestId' = [resolved |-> TRUE, value |-> resolveRequestId(headers, uuid)]
  /\ UNCHANGED <<pipelineVars, groupVars, runtimeVars, queryVars, conc>>

NextRequestId == ResolveRequestId

SpecRequestId == InitRequestId /\ [][NextRequestId]_vars

(* ------------- request id: the router's and the one of fetch ----------- *)

\* a traceparent header of the form version-traceid-parentid-flags
WellFormedHeader == <<"a", "-", "a", "-", "a", "-", "a">>

\* headers of the requests served: no traceparent, a well-formed one, or one
\* without a dash
ServedHeaderSets ==
  { hd \in TraceHeaderSets :
      hd.traceparent \in {Null, Value(WellFormedHeader), Value(<<"a">>)} }

\* routes with guards and no schemas, and the requests they match
TraceRoutes ==
  { rt \in Routes : ~rt.hasHook /\ ~rt.request.defined }

TraceRequests(rt) ==
  { rq \in MatchedRequests(rt) :
      rq.params = "42" /\ rq.query = "q_ok" /\ rq.body \in {"none", "json_ok"} }

\* the request id fetch resolves in its catch block:
\* x-request-id ?? x-correlation-id ?? crypto.randomUUID()
FetchRequestId(hd, uuid) ==
  Coalesce(hd.xRequestId, Coalesce(hd.xCorrelationId, Value(uuid))).value

InitTrace ==
  /\ route \in TraceRoutes
  /\ req \in TraceRequests(route)
  /\ pc = "start"
  /\ gi = 1
  /\ raw = NoRaw
  /\ input = NoInput
  /\ heap = <<>>
  /\ ctx = 0
  /\ calls = <<>>
  /\ outcomes = <<>>
  /\ schemaCalls = <<>>
  /\ bodyUsed = FALSE
  /\ bodyReads = <<>>
  /\ handlerRead = "none"
  /\ response = NoResponse
  /\ fault = NoFault
  /\ app = NoApp
  /\ registry = <<>>
  /\ cur = 0
  /\ executed = <<>>
  /\ served = 0
  /\ config \in Configs
  /\ headers \in ServedHeaderSets
  /\ errorCalls = <<>>
  /\ logged = <<>>
  /\ sent = <<>>
  /\ search = <<>>
  /\ parsedQuery = EmptyObject
  /\ requestId = NoRequestId
  /\ conc = NoConc

\* handle: const requestId = resolveRequestId(req.headers), once a route has
\* matched; it is the requestId of the ResolverInfo guards and handler get
HandleResolveRequestId ==
  /\ pc = "extract"
  /\ ~requestId.resolved
  /\ \E uuid \in RandomUUIDs :
       requestId' = [resolved |-> TRUE, value |-> resolveRequestId(headers, uuid)]
  /\ UNCHANGED <<pipelineVars, groupVars, runtimeVars, queryVars, conc>>

\* handle goes on with the raw values once the request id is resolved
TraceExtract == requestId.resolved /\ Extract

\* fetch: catch (error): the request id is resolved again, from the headers
\* fetch reads, and onError is called
TraceCatch ==
  /\ pc = "thrown"
  /\ \E uuid \in RandomUUIDs :
       errorCalls' =
         Append(errorCalls, [request |-> req,
                             requestId |-> FetchRequestId(headers, uuid),
                             error |-> fault])
  /\ pc' = "onError"
  /\ UNCHANGED <<route, req, gi, raw, input, heap, ctx, calls, outcomes,
                 schemaCalls, bodyUsed, bodyReads, handlerRead, response,
                 fault, groupVars, config, headers, logged, sent>>
  /\ UNCHANGED <<queryVars, requestId, conc>>

NextTrace ==
  \/ Match
  \/ HandleResolveRequestId
  \/ TraceExtract
  \/ Validate
  \/ HookCall
  \/ GuardCall
  \/ GuardResolve
  \/ HandlerCall
  \/ HandlerReadBody
  \/ HandlerResolve
  \/ FetchReturn
  \/ TraceCatch
  \/ OnErrorResolve

SpecTrace == InitTrace /\ [][NextTrace]_vars

(* ----------------- two requests in one router, interleaved -------------- *)

\* the requests in flight at the same time
Rids == {1, 2}

\* the two requests: the first passes the params schema, the second fails it
ConcRequest(r) ==
  [matched |-> TRUE, params |-> IF r = 1 THEN "42" ELSE "abc",
   query |-> IF r = 1 THEN "q_ok" ELSE "q_bad", body |-> "none",
   deniedBy |-> 0, hangs |-> 0]

\* the route both requests match: a params schema, at least one guard
ConcRoutes ==
  { rt \in Routes :
      /\ ~rt.hasHook
      /\ rt.request = [defined |-> TRUE, parts |-> {"params"}]
      /\ rt.numGuards >= 1 }

\* the locals guard i returns for request r, when it returns any
ConcPatch(r, i) ==
  IF i > 1 THEN [role |-> Absent, traceId |-> "t1"]
  ELSE IF r = 1 THEN [role |-> "user", traceId |-> Absent]
  ELSE [role |-> "admin", traceId |-> Absent]

\* a bug: `context` is one variable of the router, shared by all calls of
\* handle
Slot_shared(r) == 1

\* `let context` is a local of handle: each call of handle has its own
Slot(r) == r

\* the context object the variable `context` of request r refers to
ContextOf(c, r) == c.heap[c.ctx[Slot(r)]]

InitConc ==
  /\ route \in ConcRoutes
  /\ req = UnmatchedRequest
  /\ pc = "start"
  /\ gi = 1
  /\ raw = NoRaw
  /\ input = NoInput
  /\ heap = <<>>
  /\ ctx = 0
  /\ calls = <<>>
  /\ outcomes = <<>>
  /\ schemaCalls = <<>>
  /\ bodyUsed = FALSE
  /\ bodyReads = <<>>
  /\ handlerRead = "none"
  /\ response = NoResponse
  /\ fault = NoFault
  /\ app = NoApp
  /\ registry = <<>>
  /\ cur = 0
  /\ executed = <<>>
  /\ served = 0
  /\ config = LegacyConfig
  /\ headers = NoHeaders
  /\ errorCalls = <<>>
  /\ logged = <<>>
  /\ sent = <<>>
  /\ search = <<>>
  /\ parsedQuery = EmptyObject
  /\ requestId = NoRequestId
  /\ conc = [started |-> TRUE,
             pc |-> [r \in Rids |-> "start"],
             gi |-> [r \in Rids |-> 1],
             ctx |-> [r \in Rids |-> 0],
             heap |-> <<>>,
             log |-> [r \in Rids |-> <<>>],
             given |-> [r \in Rids |-> <<>>]]

\* handle of request r up to its first await: match, extraction (no body
\* schema, so no body is read), validateInputs, the initial context
ConcStart(r) ==
  /\ conc.pc[r] = "start"
  /\ LET rq == ConcRequest(r)
         rw == [params |-> rq.params, query |-> rq.query, body |-> Undefined]
         c0 == [raw |-> rw, input |-> validateInputs(route.request, rw),
                locals |-> EmptyLocals]
     IN  conc' = [conc EXCEPT !.heap = Append(@, c0),
                              !.ctx[Slot(r)] = Len(conc.heap) + 1,
                              !.pc[r] = "guards"]
  /\ UNCHANGED <<pipelineVars, groupVars, runtimeVars, queryVars, requestId>>

\* handle of request r: await guard(context)
ConcGuardCall(r) ==
  /\ conc.pc[r] = "guards"
  /\ conc.gi[r] <= route.numGuards
  /\ conc' = [conc EXCEPT
                !.log[r] = Append(@, [stage |-> "guard", idx |-> conc.gi[r],
                                      context |-> ContextOf(conc, r)]),
                !.pc[r] = "guardWait"]
  /\ UNCHANGED <<pipelineVars, groupVars, runtimeVars, queryVars, requestId>>

\* the guard of request r allows, with locals or without: with locals a new
\* context object is made from the current one
ConcGuardResolve(r) ==
  /\ conc.pc[r] = "guardWait"
  /\ \/ conc' = [conc EXCEPT !.gi[r] = @ + 1, !.pc[r] = "guards"]
     \/ LET patch == ConcPatch(r, conc.gi[r])
            cur0 == ContextOf(conc, r)
            next == [cur0 EXCEPT !.locals = Merge(cur0.locals, patch)]
        IN  conc' = [conc EXCEPT
                       !.heap = Append(@, next),
                       !.ctx[Slot(r)] = Len(conc.heap) + 1,
                       !.given[r] = Append(@, [idx |-> conc.gi[r],
                                               locals |-> patch]),
                       !.gi[r] = @ + 1,
                       !.pc[r] = "guards"]
  /\ UNCHANGED <<pipelineVars, groupVars, runtimeVars, queryVars, requestId>>

\* handle of request r: all guards passed, the handler is called
ConcHandlerCall(r) ==
  /\ conc.pc[r] = "guards"
  /\ conc.gi[r] > route.numGuards
  /\ conc' = [conc EXCEPT
                !.log[r] = Append(@, [stage |-> "handler", idx |-> 0,
                                      context |-> ContextOf(conc, r)]),
                !.pc[r] = "done"]
  /\ UNCHANGED <<pipelineVars, groupVars, runtimeVars, queryVars, requestId>>

NextConc ==
  \/ \E r \in Rids : ConcStart(r)
  \/ \E r \in Rids : ConcGuardCall(r)
  \/ \E r \in Rids : ConcGuardResolve(r)
  \/ \E r \in Rids : ConcHandlerCall(r)

SpecConc == InitConc /\ [][NextConc]_vars

(* ---------------- stages whose promise never settles -------------------- *)

\* requests on which a guard or the handler may never settle
StallRequests(rt) ==
  [ matched : {TRUE}, params : {"42"}, query : {"q_ok"}, body : {"none"},
    deniedBy : 0..rt.numGuards, hangs : 0..(rt.numGuards + 1) ]

InitStall ==
  /\ route \in TraceRoutes
  /\ req \in StallRequests(route)
  /\ pc = "start"
  /\ gi = 1
  /\ raw = NoRaw
  /\ input = NoInput
  /\ heap = <<>>
  /\ ctx = 0
  /\ calls = <<>>
  /\ outcomes = <<>>
  /\ schemaCalls = <<>>
  /\ bodyUsed = FALSE
  /\ bodyReads = <<>>
  /\ handlerRead = "none"
  /\ response = NoResponse
  /\ fault = NoFault
  /\ app = NoApp
  /\ registry = <<>>
  /\ cur = 0
  /\ executed = <<>>
  /\ served = 0
  /\ config \in Configs
  /\ headers \in HeaderSets
  /\ errorCalls = <<>>
  /\ logged = <<>>
  /\ sent = <<>>
  /\ search = <<>>
  /\ parsedQuery = EmptyObject
  /\ requestId = NoRequestId
  /\ conc = NoConc

\* fetch on these requests: they carry no body, the handler has none to read
NextStall ==
  \/ Match
  \/ Extract
  \/ Validate
  \/ HookCall
  \/ GuardCall
  \/ GuardResolve
  \/ HandlerCall
  \/ HandlerResolve
  \/ FetchReturn
  \/ Catch
  \/ OnErrorResolve

SpecStall == InitStall /\ [][NextStall]_vars

(* ------------------------ validation.ts: parseQuery -------------------- *)

\* most key=value pairs in a query string
MaxPairs == 3

\* values of query parameters; the empty one is ?key= or ?key
QueryStrings == {"a", "b", ""}

\* the query strings: pairs in the order they appear in the URL
SearchParams ==
  UNION { [1..n -> QueryKeys \X QueryStrings] : n \in 0..MaxPairs }

\* the function Object, which {}.constructor evaluates to
ObjectFn == "[Function: Object]"

\* a property holding a string, a function, an array
StringProperty(v) == [kind |-> "string", vals |-> <<v>>]

FunctionProperty == [kind |-> "function", vals |-> <<ObjectFn>>]

ArrayProperty(vs) == [kind |-> "array", vals |-> vs]

\* result[key] on an object created by {}: the own property, else the one
\* inherited from Object.prototype, else undefined
GetProperty(obj, key) ==
  IF obj[key] # NoProperty THEN obj[key]
  ELSE IF key = "constructor" THEN FunctionProperty
  ELSE NoProperty

\* body of the loop of parseQuery for one [key, value]
ParseQueryStep(result, key, value) ==
  LET existing == GetProperty(result, key)
  IN  IF existing = NoProperty
      THEN [result EXCEPT ![key] = StringProperty(value)]
      ELSE IF existing.kind = "array"
      THEN [result EXCEPT ![key] = ArrayProperty(Append(existing.vals, value))]
      ELSE [result EXCEPT ![key] = ArrayProperty(existing.vals \o <<value>>)]

RECURSIVE ParseQueryFrom(_, _)

\* the loop of parseQuery over the remaining pairs
ParseQueryFrom(result, pairs) ==
  IF pairs = <<>> THEN result
  ELSE ParseQueryFrom(ParseQueryStep(result, Head(pairs)[1], Head(pairs)[2]),
                      Tail(pairs))

\* parseQuery(url)
parseQuery(pairs) == ParseQueryFrom(EmptyObject, pairs)

InitQuery ==
  /\ route = PlainRoute
  /\ req = UnmatchedRequest
  /\ pc = "query"
  /\ gi = 1
  /\ raw = NoRaw
  /\ input = NoInput
  /\ heap = <<>>
  /\ ctx = 0
  /\ calls = <<>>
  /\ outcomes = <<>>
  /\ schemaCalls = <<>>
  /\ bodyUsed = FALSE
  /\ bodyReads = <<>>
  /\ handlerRead = "none"
  /\ response = NoResponse
  /\ fault = NoFault
  /\ app = NoApp
  /\ registry = <<>>
  /\ cur = 0
  /\ executed = <<>>
  /\ served = 0
  /\ config = LegacyConfig
  /\ headers = NoHeaders
  /\ errorCalls = <<>>
  /\ logged = <<>>
  /\ sent = <<>>
  /\ search \in SearchParams
  /\ parsedQuery = EmptyObject
  /\ requestId = NoRequestId
  /\ conc = NoConc

\* handle: const query = parseQuery(req.url)
ParseQuery ==
  /\ pc = "query"
  /\ parsedQuery' = parseQuery(search)
  /\ pc' = "queryParsed"
  /\ UNCHANGED <<route, req, gi, raw, input, heap, ctx, calls, outcomes,
                 schemaCalls, bodyUsed, bodyReads, handlerRead, response,
                 fault, groupVars, runtimeVars, search, requestId, conc>>

NextQuery == ParseQuery

SpecQuery == InitQuery /\ [][NextQuery]_vars

(* ------------------------------- claims -------------------------------- *)

GuardCalled(i) ==
  \E j \in 1..Len(calls) : calls[j].stage = "guard" /\ calls[j].idx = i

HandlerCalled == \E j \in 1..Len(calls) : calls[j].stage = "handler"

Validated == "ok" \in DOMAIN input

\* the declared parts whose schema rejects the raw value
FailingParts ==
  {p \in route.request.parts : ~safeParse(p, raw[p]).success}

\* C1: once a guard of the chain has returned deny, no guard behind it is
\* invoked and the handler is not invoked, whatever input.ok is.
C1_DenyStopsChain ==
  \A i \in 1..Len(outcomes) :
    (outcomes[i].stage = "guard" /\ outcomes[i].kind = "deny") =>
      /\ \A j \in 1..Len(calls) :
           calls[j].stage = "guard" => calls[j].idx <= outcomes[i].idx
      /\ ~HandlerCalled

\* C1 witness: the first of two guards denied a request with invalid input
C1_Witness ==
  /\ pc = "done"
  /\ route.numGuards = 2
  /\ Validated /\ ~input.ok
  /\ response = [kind |-> "deny", idx |-> 1]

\* C2: a request that a guard denies and whose input is invalid is answered
\* with that guard's deny response, never with a validation-error response.
C2_DenyBeatsValidation ==
  (pc = "done" /\ req.matched /\ req.deniedBy # 0 /\ FailingParts # {}) =>
    response = [kind |-> "deny", idx |-> req.deniedBy]

\* C2 witness: invalid input, and the second guard's deny is the response
C2_Witness ==
  /\ pc = "done"
  /\ Validated /\ ~input.ok
  /\ req.deniedBy = 2
  /\ response = [kind |-> "deny", idx |-> 2]

\* the pipeline has got beyond the start of the guard stage
PastGuardStart ==
  \/ pc \in {"guardWait", "handlerWait"}
  \/ pc = "done" /\ req.matched
  \/ pc = "thrown" /\ fault.stage \in {"guard", "handler"}

\* C3: a guard is only ever invoked after validateInputs has produced
\* c.input, and the chain is entered whatever input.ok is: no matched
\* request gets beyond the guard stage without its first guard invoked.
C3_GuardsAfterValidationAlways ==
  /\ \A j \in 1..Len(calls) :
       calls[j].stage = "guard" =>
         Validated /\ j > 1 /\ calls[1].stage = "validate"
  /\ (PastGuardStart /\ route.numGuards > 0) => GuardCalled(1)

\* C3 witness: the first guard is being invoked on a failed validation
C3_Witness ==
  /\ pc = "guardWait"
  /\ gi = 1
  /\ Validated /\ ~input.ok
  /\ GuardCalled(1)

\* C4: when two or more declared parts fail, c.input is the failure and its
\* issue list holds every issue of every failing part.
C4_NoFailFast ==
  (Validated /\ Cardinality(FailingParts) >= 2) =>
    /\ ~input.ok
    /\ \A p \in FailingParts :
         LET res == safeParse(p, raw[p])
         IN  \A k \in 1..Len(res.issues) :
               \E i \in 1..Len(input.issues) :
                 /\ input.issues[i].part = p
                 /\ input.issues[i].path = res.issues[k].path
                 /\ input.issues[i].message = res.issues[k].message

\* C4 witness: params and body both failed and both are reported
C4_Witness ==
  /\ Validated
  /\ FailingParts = {"params", "body"}
  /\ ~input.ok
  /\ Len(input.issues) = 2

\* C5: when any declared part fails, c.input is the ok:false result and has
\* no params, query or body value, only failed, issues and the raw values.
C5_AllOrNothing ==
  (Validated /\ FailingParts # {}) =>
    /\ ~input.ok
    /\ DOMAIN input \cap PartSet = {}
    /\ input.raw = raw

\* C5 witness: the handler is invoked on a request whose params schema
\* accepted and whose query schema rejected
C5_Witness ==
  /\ HandlerCalled
  /\ route.request.parts = {"params", "query"}
  /\ FailingParts = {"query"}
  /\ ~input.ok

\* C6: on a route without request schemas c.input is
\* {ok:true, params:undefined, query:undefined, body:undefined} and no
\* schema is called.
C6_NoSchemaSentinel ==
  (Validated /\ ~route.request.defined) =>
    /\ input = [ok |-> TRUE, params |-> Undefined, query |-> Undefined,
                body |-> Undefined]
    /\ schemaCalls = <<>>

\* the route declares no body schema
NoBodySchema == "body" \notin route.request.parts

\* stage st has read the bytes of the transport body
BodyReadBy(st) == \E i \in 1..Len(bodyReads) : bodyReads[i] = st

C9_BodyReadAtMostOnce ==
  /\ Len(bodyReads) <= 1
  /\ BodyReadBy("extraction") => handlerRead # "ok"

\* C9 witness: extraction read the body and the handler's read was refused
C9_Witness ==
  /\ bodyReads = <<"extraction">>
  /\ handlerRead = "failed"

\* the patches contributed so far, hook first, then guards in chain order
Producers ==
  SelectSeq(outcomes, LAMBDA o :
    o.stage \in {"hook", "guard"} /\ o.kind = "allow" /\ o.hasLocals)

\* the value of key k in the patch of the last producer that has the key
LastWritten(k) ==
  LET S == {i \in 1..Len(Producers) : Producers[i].locals[k] # Absent}
  IN  IF S = {} THEN Absent
      ELSE Producers[CHOOSE i \in S : \A j \in S : j <= i].locals[k]

\* C10: every locals key of the context the handler receives has the value
\* of the last producer (hook, then guards in order) whose patch has the key.
C10_LastWriterWins ==
  \A j \in 1..Len(calls) :
    calls[j].stage = "handler" =>
      \A k \in Keys : heap[calls[j].ref][k] = LastWritten(k)

\* C10 witness: the hook set role "user", a guard set role "admin", and the
\* handler sees "admin"
C10_Witness ==
  /\ HandlerCalled
  /\ Len(Producers) >= 2
  /\ Producers[1].stage = "hook" /\ Producers[1].locals["role"] = "user"
  /\ Producers[Len(Producers)].stage = "guard"
  /\ Producers[Len(Producers)].locals["role"] = "admin"
  /\ heap[ctx]["role"] = "admin"

\* the error parseBody synthesizes for a JSON body that does not parse
InvalidJsonError == [path |-> <<"body">>, message |-> "Invalid JSON"]

\* the request is sent as JSON and its body is not well-formed JSON
MalformedJsonRequest ==
  /\ req.contentType = "application/json"
  /\ req.body \notin {"json_ok", "json_bad"}

\* the declared parts other than the body pass their schema
OthersPass ==
  /\ "query" \in route.request.parts => req.query \in Accepted
  /\ "params" \in route.request.parts => req.params \in Accepted

C11_ContextsImmutable ==
  \A j \in 1..Len(calls) :
    calls[j].ref > 0 => heap[calls[j].ref] = calls[j].seen

\* C11 witness: the hook received the empty context, then the hook and a
\* guard each merged a patch; the hook's object is still empty
C11_Witness ==
  /\ Len(Producers) >= 2
  /\ Producers[1].stage = "hook"
  /\ Producers[2].stage = "guard"
  /\ \E j \in 1..Len(calls) :
       /\ calls[j].stage = "hook"
       /\ heap[calls[j].ref] = EmptyLocals
  /\ heap[ctx] # EmptyLocals

\* the guard arrays the application wrote for the nested route
OuterGuards == app.guards

InnerGuards == app.children[1].guards

OwnGuards == app.children[1].children[1].guards

\* C12: the route registered through the inner group of the outer group has
\* the guard list outer ++ inner ++ own, each in the order written, from
\* setup on; every request to it runs exactly that list, in that order.
C12_NestedGuardOrder ==
  pc # "setup" =>
    /\ registry[1].path = "/api/users"
    /\ registry[1].guards = OuterGuards \o InnerGuards \o OwnGuards
    /\ (pc = "listening" /\ served > 0 /\ cur = 1) =>
         executed = OuterGuards \o InnerGuards \o OwnGuards

\* C12 witness: two outer guards written second-first, an inner and an own
\* guard; the second request to the nested route has run all four in order
C12_Witness ==
  /\ pc = "listening"
  /\ served = 2
  /\ cur = 1
  /\ Len(OuterGuards) = 2 /\ OuterGuards[1].n = 2
  /\ Len(InnerGuards) = 1
  /\ Len(OwnGuards) = 1
  /\ Len(executed) = 4
  /\ executed[1] = [scope |-> "outer", n |-> 2]
  /\ executed[3].scope = "inner"
  /\ executed[4].scope = "route"

\* no stage of the pipeline was invoked twice
NoRetry ==
  \A j, k \in 1..Len(calls) :
    (calls[j].stage = calls[k].stage /\ calls[j].idx = calls[k].idx) => j = k

\* a guard or the handler has thrown
Faulted == fault.stage \in {"guard", "handler"}

\* C13: a throw out of a guard or the handler never leaves fetch; it enters
\* the catch block once, no stage is run again, and fetch resolves with one
\* response, the one onError returned.
C13_CaughtOnce ==
  /\ pc # "rejected"
  /\ Len(errorCalls) <= 1
  /\ Len(sent) <= 1
  /\ NoRetry
  /\ Faulted =>
       /\ pc \in {"thrown", "onError", "returned"}
       /\ pc \in {"thrown", "onError"} => ENABLED NextRuntime
       /\ pc = "returned" =>
            /\ Len(errorCalls) = 1
            /\ Len(sent) = 1
            /\ sent[1].origin \in {"defaultOnError", "customOnError"}

\* C13 witness: the second guard threw after the first allowed, and fetch
\* has resolved with the response of onError
C13_Witness ==
  /\ pc = "returned"
  /\ fault.stage = "guard" /\ fault.idx = 2
  /\ Len(errorCalls) = 1
  /\ Len(sent) = 1
  /\ ~HandlerCalled

\* the request id the catch block must resolve for the request's headers
HeaderRequestId ==
  IF headers.xRequestId # Absent THEN headers.xRequestId
  ELSE headers.xCorrelationId

C15_AlwaysSanitized ==
  (Faulted /\ pc = "returned") => sent[1].body.detail = NoFault

\* C15: the response to a fault is the response of the configured onError:
\* without an onError of the caller it carries no detail of the fault; with
\* one it is whatever that onError returned, fault detail included.
C15_ResponseIsOnErrors ==
  (Faulted /\ pc = "returned") =>
    IF config.onError = "custom"
    THEN sent[1] \in CustomOnErrorResponses(errorCalls[1])
    ELSE sent[1].origin = "defaultOnError" /\ sent[1].body.detail = NoFault

\* C15 witness: the caller's onError answered a guard's fault with a body
\* that reports the fault
C15_Witness ==
  /\ pc = "returned"
  /\ fault.stage = "guard"
  /\ config.onError = "custom"
  /\ sent[1].body.detail = fault

\* C16: without an onError of the caller, a fault is logged once, with the
\* fault, and the response is status 500 with the fixed body
\* "Internal Server Error" and nothing of the fault.
C16_DefaultOnError ==
  (Faulted /\ pc = "returned" /\ config.onError = "default") =>
    /\ Len(logged) = 1
    /\ logged[1].error = fault
    /\ sent = << [origin |-> "defaultOnError",
                  status |-> InternalServerErrorStatus,
                  body |-> Body("Internal Server Error", NoFault)] >>

\* C16 witness: the handler threw under the default onError
C16_Witness ==
  /\ pc = "returned"
  /\ fault.stage = "handler"
  /\ config.onError = "default"
  /\ Len(logged) = 1
  /\ sent[1].status = InternalServerErrorStatus

\* position of a stage in the pipeline
StageRank(st) ==
  CASE st = "validate" -> 1
    [] st = "hook" -> 2
    [] st = "guard" -> 3
    [] OTHER -> 4

\* the stages were entered in pipeline order, the guards one after the other
StraightLine ==
  \A j \in 1..Len(calls) :
    /\ j = 1 => calls[j].stage = "validate"
    /\ j > 1 =>
         IF calls[j].stage = "guard"
         THEN IF calls[j - 1].stage = "guard"
              THEN calls[j].idx = calls[j - 1].idx + 1
              ELSE calls[j].idx = 1
         ELSE StageRank(calls[j - 1].stage) < StageRank(calls[j].stage)

\* the last thing a hook, a guard or the handler did
LastOutcome == outcomes[Len(outcomes)]

NoMatchAnswered == ~req.matched /\ pc = "done"

C19_NoRequestTimeFailure ==
  (route.request.defined /\ route.request.parts # {} /\ ~route.validator) =>
    ~(pc = "thrown" /\ fault.stage = "validation")

\* the values of key k in the query string, in order of appearance
ValuesOf(k) ==
  LET own == SelectSeq(search, LAMBDA pr : pr[1] = k)
  IN  [i \in 1..Len(own) |-> own[i][2]]

\* C20: in the object parseQuery returns, a key that appears once holds its
\* value as a string, a key that appears N > 1 times holds the array of its
\* N values in order of appearance, and a key that does not appear is not
\* set; the empty string is a value like any other.
C20_QueryShape ==
  pc = "queryParsed" =>
    \A k \in QueryKeys :
      LET vs == ValuesOf(k)
      IN  CASE Len(vs) = 0 -> parsedQuery[k] = NoProperty
            [] Len(vs) = 1 -> parsedQuery[k] = [kind |-> "string", vals |-> vs]
            [] OTHER -> parsedQuery[k] = [kind |-> "array", vals |-> vs]

\* the hook has returned (it did not throw)
HookReturned ==
  Len(outcomes) > 0 /\ outcomes[1].stage = "hook" /\ outcomes[1].kind # "throw"

\* C21: whatever the onRequest hook returns, a patch, nothing, a deny
\* object or a Response, the pipeline goes on to the guards and the handler:
\* the response of the request is never the hook's, and a request is only
\* answered after a guard or the handler was invoked.
C21_HookOnlyPatches ==
  /\ response.kind # "hook"
  /\ HookReturned =>
       /\ pc \in {"guards", "guardWait", "handlerWait", "done", "thrown"}
       /\ pc = "done" => (GuardCalled(1) \/ HandlerCalled)
       /\ pc = "done" => response.kind \in {"deny", "handler", "validationError"}

\* C21 witness: the hook returned a deny object, and the handler answered
C21_Witness ==
  /\ pc = "done"
  /\ HookReturned
  /\ outcomes[1].kind = "deny"
  /\ HandlerCalled
  /\ response.kind = "handler"

\* the onRequest hook has been invoked
HookCalled == \E j \in 1..Len(calls) : calls[j].stage = "hook"

\* C22: with an onRequest hook configured, route matching is only performed
\* after the hook was invoked: once handle has matched the request, with or
\* without finding a route, the hook's call is the first call made.
C22_HookBeforeMatch ==
  (route.hasHook /\ pc # "start") =>
    /\ HookCalled
    /\ calls[1].stage = "hook"


\* fetch has been left by a rejection rather than by a Response
FetchRejected == pc = "rejected"

\* C30: fetch resolves with a Response for every request; no fault leaves
\* fetch as a rejection, not even a throw of the configured onError itself.
C30_FetchNeverRejects ==
  ~FetchRejected


\* onResponse has been invoked for the request
OnResponseCalled == \E j \in 1..Len(calls) : calls[j].stage = "onResponse"

\* onError has been triggered for the request
OnErrorTriggered == Len(errorCalls) > 0

WellFormedTraceParent(header) ==
  /\ header.present
  /\ header.value # <<>>
  /\ LET parts == Split(header.value)
     IN  Len(parts) = 4 /\ \A k \in 1..4 : parts[k] # <<>>

\* C24: the request id is the trace-id of a well-formed traceparent; with no
\* traceparent or a malformed one it is x-request-id if present, else
\* x-correlation-id if present, else a new UUID.
C24_RequestIdPriority ==
  requestId.resolved =>
    IF WellFormedTraceParent(headers.traceparent)
    THEN requestId.value = Split(headers.traceparent.value)[2]
    ELSE IF headers.xRequestId.present
    THEN requestId.value = headers.xRequestId.value
    ELSE IF headers.xCorrelationId.present
    THEN requestId.value = headers.xCorrelationId.value
    ELSE requestId.value \in RandomUUIDs


\* the calls of guards, and the results guards have resolved with, in order
GuardCalls == SelectSeq(calls, LAMBDA c : c.stage = "guard")

GuardOutcomes == SelectSeq(outcomes, LAMBDA o : o.stage = "guard")

\* C25: guards are invoked one at a time in list order: the k-th guard call
\* is the call of guard k, at most one guard is unresolved, and guard k is
\* only called after guards 1..k-1 have each resolved to allow; the first
\* guard call comes after validateInputs has produced c.input.
C25_GuardsOneAtATime ==
  /\ \A k \in 1..Len(GuardCalls) : GuardCalls[k].idx = k
  /\ Len(GuardCalls) - Len(GuardOutcomes) = (IF pc = "guardWait" THEN 1 ELSE 0)
  /\ \A k \in 1..Len(GuardOutcomes) : GuardOutcomes[k].idx = k
  /\ \A k \in 1..Len(GuardCalls) :
       \A i \in 1..(k - 1) : GuardOutcomes[i].kind = "allow"
  /\ Len(GuardCalls) > 0 =>
       /\ Validated
       /\ calls[1].stage = "validate"
       /\ schemaCalls = SafeParseCalls(route.request)

\* C25 witness: the second guard has been called and is unresolved; the
\* first resolved to allow before, and validation had failed before that
C25_Witness ==
  /\ pc = "guardWait"
  /\ Len(GuardCalls) = 2
  /\ Len(GuardOutcomes) = 1 /\ GuardOutcomes[1].kind = "allow"
  /\ Validated /\ ~input.ok


\* the patches returned before guard k is called: the one of the hook, then
\* those of guards 1..k-1
PatchesBefore(k) ==
  SelectSeq(outcomes, LAMBDA o :
    /\ o.hasLocals
    /\ o.kind # "throw"
    /\ o.stage = "hook" \/ (o.stage = "guard" /\ o.idx < k))

\* the value of a key after the patches of a sequence were applied in order
\* to empty locals: that of the last patch that has the key
InOrder(patches, key) ==
  LET S == {i \in 1..Len(patches) : patches[i].locals[key] # Absent}
  IN  IF S = {} THEN Absent
      ELSE patches[CHOOSE i \in S : \A j \in S : j <= i].locals[key]

\* C26: the locals guard k is called with are the in-order merge of the
\* hook's patch and the patches of guards 1..k-1, and nothing else; the hook
\* itself is called with empty locals.
C26_GuardSeesMergedPatches ==
  \A j \in 1..Len(calls) :
    /\ calls[j].stage = "guard" =>
         \A key \in Keys :
           calls[j].seen[key] = InOrder(PatchesBefore(calls[j].idx), key)
    /\ calls[j].stage = "hook" => calls[j].seen = EmptyLocals

\* C26 witness: the hook set traceId, guard 1 set role, and guard 2 was
\* called with both
C26_Witness ==
  /\ Len(GuardCalls) = 2
  /\ Len(PatchesBefore(2)) = 2
  /\ PatchesBefore(2)[1].stage = "hook"
  /\ PatchesBefore(2)[1].locals["traceId"] = "t1"
  /\ PatchesBefore(2)[2].locals["role"] = "admin"
  /\ GuardCalls[2].seen = [role |-> "admin", traceId |-> "t1"]


\* reading the request's body by its Content-Type fails
BodyParseFails == PlatformRead(ReadMethod(req.contentType), req.body).threw

\* the declared parts other than the body whose value the schema rejects
\* with an error
OtherFailingParts ==
  { p \in route.request.parts \ {"body"} :
      req[p] \notin Accepted \cup SilentlyRejected }

PartSucceeded(p) ==
  IF p = "body"
  THEN ~BodyParseFails /\ parseBodyCT(req).data \in Accepted
  ELSE req[p] \in Accepted

\* C28: validateInput returns ok:true only if the validator call of every
\* declared part reported success, whatever the error list of a failure.
C28_OkOnlyIfAllSucceeded ==
  (pc = "validated" /\ input.ok) =>
    \A p \in route.request.parts : PartSucceeded(p)


\* the route declares a schema for some parts and not for all
PartialSchemas ==
  /\ route.request.defined
  /\ route.request.parts # {}
  /\ route.request.parts # PartSet

\* C29: on a route with schemas for only some parts, a successful c.input
\* holds undefined for each part without a schema, not the raw value; and a
\* failed one names no part without a schema, in `failed` or in an issue.
C29_UndeclaredNotProvided ==
  (Validated /\ PartialSchemas) =>
    IF input.ok
    THEN \A p \in PartSet \ route.request.parts : input[p] = Undefined
    ELSE /\ \A i \in 1..Len(input.failed) :
              input.failed[i] \in route.request.parts
         /\ \A i \in 1..Len(input.issues) :
              input.issues[i].part \in route.request.parts


\* C31: when guard k throws, no context is created or changed by it: the
\* error carries the context guard k was called with, whose locals are the
\* merge of the patches of guards 1..k-1, and that error, context attached,
\* is the one handed to onError.
C31_ThrowLeavesContext ==
  fault.stage = "guard" =>
    /\ Len(GuardCalls) = fault.idx
    /\ fault.ref = GuardCalls[fault.idx].ref
    /\ ctx = fault.ref
    /\ Len(heap) = fault.ref
    /\ heap[fault.ref] = GuardCalls[fault.idx].seen
    /\ \A key \in Keys :
         heap[fault.ref][key] = InOrder(PatchesBefore(fault.idx), key)
    /\ \A i \in 1..Len(errorCalls) : errorCalls[i].error = fault

\* C31 witness: guard 1 set role "admin", guard 2 threw, and onError has been
\* called with the error whose context holds role "admin"
C31_Witness ==
  /\ fault.stage = "guard" /\ fault.idx = 2
  /\ Len(errorCalls) = 1
  /\ errorCalls[1].error.ref = 2
  /\ heap[errorCalls[1].error.ref] = [role |-> "admin", traceId |-> Absent]


\* the guards that have returned a deny
Deniers ==
  { GuardOutcomes[k].idx :
      k \in { j \in 1..Len(GuardOutcomes) : GuardOutcomes[j].kind = "deny" } }

UnrecognizedContentType ==
  req.contentType \notin {"application/json", "multipart/form-data", "text/plain"}

RawFactsOf(rt, rq) ==
  [params |-> rq.params, query |-> rq.query,
   body |-> IF "body" \in rt.request.parts /\ rq.body \in {"json_ok", "json_bad"}
            THEN JsonValue(rq.body) ELSE Undefined]

\* C34: the context every guard and the handler is called with holds the raw
\* params, the raw query and the parsed body (if a body schema is declared),
\* whether c.input is ok or not; a failed c.input holds them too, as raw.
C34_RawFactsAlwaysPresent ==
  /\ \A j \in 1..Len(calls) :
       calls[j].stage \in {"guard", "handler"} =>
         calls[j].raw = RawFactsOf(route, req)
  /\ (Validated /\ ~input.ok) => input.raw = RawFactsOf(route, req)

\* C34 witness: validation failed on the params, and a guard and then the
\* handler were called with the raw params, query and body
C34_Witness ==
  /\ Validated /\ ~input.ok
  /\ route.request.parts = PartSet
  /\ req.params = "abc" /\ req.body = "json_ok"
  /\ GuardCalled(1) /\ HandlerCalled
  /\ calls[Len(calls)].raw = [params |-> "abc", query |-> req.query,
                              body |-> "b_ok"]


\* the parts of `failed` and the parts the issues are tagged with
FailedSet == { input.failed[i] : i \in 1..Len(input.failed) }

\* position of a part in the order params, query, body
PartRank(p) == CHOOSE i \in 1..3 : <<"params", "query", "body">>[i] = p

\* C35: in a failure result, a part is in input.failed if and only if it has
\* a declared schema that rejected its raw value, each such part once and in
\* the order params, query, body; every issue is tagged with a failed part
\* and is an issue that part's schema reported, and each failed part has one.
C35_FailedAndIssuesByPart ==
  (Validated /\ ~input.ok) =>
    /\ FailedSet = { p \in route.request.parts : raw[p] \notin Accepted }
    /\ \A i, j \in 1..Len(input.failed) :
         i < j => PartRank(input.failed[i]) < PartRank(input.failed[j])
    /\ \A i \in 1..Len(input.issues) :
         /\ input.issues[i].part \in FailedSet
         /\ \E k \in 1..Len(safeParse(input.issues[i].part,
                                      raw[input.issues[i].part]).issues) :
              LET iss == safeParse(input.issues[i].part,
                                   raw[input.issues[i].part]).issues[k]
              IN  /\ input.issues[i].path = iss.path
                  /\ input.issues[i].message = iss.message
    /\ \A p \in FailedSet :
         \E i \in 1..Len(input.issues) : input.issues[i].part = p

\* C35 witness: params and body were rejected and query was accepted: failed
\* is <<params, body>> and the two issues are tagged params and body
C35_Witness ==
  /\ Validated /\ ~input.ok
  /\ route.request.parts = PartSet
  /\ raw.query \in Accepted
  /\ input.failed = <<"params", "body">>
  /\ Len(input.issues) = 2
  /\ input.issues[1].part = "params" /\ input.issues[2].part = "body"


\* C36: the request id every onError call receives is the one
\* resolveRequestId gave for the request, which its guards and its handler
\* were given.
C36_SameRequestId ==
  \A i \in 1..Len(errorCalls) :
    /\ requestId.resolved
    /\ errorCalls[i].requestId = requestId.value


\* the raw values of request r
RawOf(r) ==
  [params |-> ConcRequest(r).params, query |-> ConcRequest(r).query,
   body |-> Undefined]

\* the patches request r's own guards ahead of guard k have returned
OwnPatchesBefore(r, k) ==
  SelectSeq(conc.given[r], LAMBDA g : g.idx < k)

\* guard k, or the handler behind all guards
StagePosition(e) == IF e.stage = "handler" THEN route.numGuards + 1 ELSE e.idx

\* C37: with two requests interleaved, the context every guard and the
\* handler of a request is called with holds that request's raw values, the
\* c.input validated from them, and the locals merged from that request's own
\* guards so far: nothing of the other request.
C37_RequestsIsolated ==
  \A r \in Rids :
    \A j \in 1..Len(conc.log[r]) :
      LET e == conc.log[r][j]
      IN  /\ e.context.raw = RawOf(r)
          /\ e.context.input.ok = (r = 1)
          /\ ~e.context.input.ok => e.context.input.raw = RawOf(r)
          /\ e.context.input.ok => e.context.input.params = "n42"
          /\ \A key \in Keys :
               e.context.locals[key] =
                 InOrder(OwnPatchesBefore(r, StagePosition(e)), key)

\* C37 witness: both requests are waiting on a guard at the same time; the
\* first request's guard 1 gave role "user" before the second request began,
\* whose guard sees empty locals and its own failed input
C37_Witness ==
  /\ conc.pc[1] = "guardWait" /\ conc.pc[2] = "guardWait"
  /\ Len(conc.log[1]) = 2 /\ Len(conc.log[2]) = 1
  /\ conc.ctx[1] = 2 /\ conc.ctx[2] = 3
  /\ conc.log[1][2].context.locals["role"] = "user"
  /\ conc.log[2][1].context.locals = EmptyLocals
  /\ ~conc.log[2][1].context.input.ok


\* handle is awaiting a stage whose promise never settles
Stalled ==
  \/ pc = "guardWait" /\ req.hangs = gi
  \/ pc = "handlerWait" /\ req.hangs = route.numGuards + 1

\* C38: while handle awaits a guard or handler that never settles, the
\* request stays where it is: the last stage called is that one, there is no
\* response and no onError call, and no step of the core is possible, no
\* timeout or cancellation either.
C38_StallIsForever ==
  Stalled =>
    /\ response = NoResponse
    /\ sent = <<>>
    /\ errorCalls = <<>>
    /\ calls[Len(calls)].stage = (IF pc = "guardWait" THEN "guard" ELSE "handler")
    /\ pc = "guardWait" => calls[Len(calls)].idx = gi
    /\ ~ENABLED NextStall

\* C38 witness: the first guard allowed and the second never settles; the
\* handler has not been called and nothing has been sent
C38_Witness ==
  /\ Stalled
  /\ pc = "guardWait" /\ gi = 2
  /\ ~HandlerCalled
  /\ sent = <<>>


\* how often the schema of part p has been called for the request
TimesCalled(p) ==
  Cardinality({ i \in 1..Len(schemaCalls) : schemaCalls[i] = p })

\* C39: once validateInputs has run, the schema of each declared part has
\* been called exactly once and the schema of no other part at all, and that
\* stays so through the hook, the guards and the handler, also when
\* validation failed; before validateInputs no schema has been called.
C39_EachSchemaOnce ==
  /\ ~Validated => schemaCalls = <<>>
  /\ Validated =>
       \A p \in PartSet :
         TimesCalled(p) = (IF p \in route.request.parts THEN 1 ELSE 0)

\* C39 witness: params and body are declared, the params schema rejected its
\* value, the handler has been called, and each schema was called once
C39_Witness ==
  /\ Validated /\ ~input.ok
  /\ route.request.parts = {"params", "body"}
  /\ HandlerCalled
  /\ schemaCalls = <<"params", "body">>


\* the route object as it was written, and the guards of the k-th group
RouteAsWritten ==
  [path |-> app.children[1].children[1].path,
   guards |-> app.children[1].children[1].guards]

\* C40: the route object passed to group() stays as it was written, and the
\* k-th registration has the guards of the k-th group followed by the
\* route's own guards, none of the other group's.
C40_GroupLeavesHandlers ==
  /\ heap[1] = RouteAsWritten
  /\ \A k \in 1..Len(registry) :
       /\ heap[registry[k]].guards = app.children[k].guards \o RouteAsWritten.guards
       /\ heap[registry[k]].path = RouteAsWritten.path
       /\ Len(app.children[k].guards) > 0 => registry[k] # 1

\* C40 witness: both groups have guards and the route has one of its own;
\* both registrations are made, each a new object
C40_Witness ==
  /\ Len(registry) = 2
  /\ Len(app.children[1].guards) = 2 /\ Len(app.children[2].guards) = 1
  /\ Len(RouteAsWritten.guards) = 1
  /\ registry = <<2, 3>>
  /\ Len(heap[2].guards) = 3 /\ Len(heap[3].guards) = 2

====
